---- MODULE Spec2Model ----
(***************************************************************************)
(* Model of the blobsearch log ingestor (cmd/ingestor/main.go): the        *)
(* LogIngestor with its batch buffer, dedup window, partition tracker,     *)
(* flush paths (size-triggered, explicit, periodic, shutdown) and the      *)
(* partitioned writer that puts one blob per partition group to the sink.  *)
(***************************************************************************)
EXTENDS Integers, Sequences, FiniteSets, TLC

\* ---- bounds of the model ------------------------------------------------
BatchSize == 2      \* -batch-size
DedupWindow == 2    \* -dedup-window
MaxLines == 4       \* ProcessLine calls explored with a sink that never fails
MaxLinesFail == 3   \* ProcessLine calls explored with a failing sink
MaxLinesAuto == 2   \* ProcessLine calls explored with auto-flush on
MaxFail == 1        \* failing sink writes explored
MaxNow == 2         \* last value of the wall clock
MaxDatagrams == 2   \* UDP datagrams that arrive
MaxDatagramLen == 2 \* bytes of the longest datagram, and of the UDP receive buffer
MaxStream == 4      \* bytes of the longest TCP stream
MaxRead == 2        \* bytes one conn.Read returns at most (the size of readBuf)
MaxDigits == 2      \* digits of the longest integer in a level field
MaxExtras == 2      \* extra fields of a GELF envelope at most
MaxBurst == 3       \* datagrams of a burst that holds malformed ones
MaxBody == 3        \* lines of the longest request body or connection

\* ---- configuration flags -------------------------------------------------
deduplicate == TRUE
logTimestamps == TRUE

\* ---- processes ------------------------------------------------------------
Producers == {"p1", "p2"}     \* receivers calling ProcessLine
Flushers == {"f"}             \* the /flush handler calling Flush
Worker == "w"                 \* autoFlushWorker goroutine
Stopper == "s"                \* the caller of Stop
Procs == Producers \cup Flushers \cup {Worker, Stopper}
Free == "free"

\* ---- input lines ----------------------------------------------------------
\* A line is known by its text (msg), the timestamp parseTimestamp finds in it
\* (NoTs: none, the wall clock is used) and the level extractLevel finds.
NoTs == -1
Lines ==
  { [msg |-> "a", ts |-> 0, lvl |-> "error"],
    [msg |-> "b", ts |-> NoTs, lvl |-> "unknown"] }

VARIABLES
  lineCount,        \* li.lineCount
  duplicateCount,   \* li.duplicateCount
  batchNumber,      \* li.batchNumber
  batch,            \* li.batch (BatchInfo)
  dedupCache,       \* li.dedupCache (hashes, order)
  partitionMap,     \* li.partitionTracker.partitionMap (its key set)
  mu,               \* li.mu: Free or the process holding it
  stopAutoFlush,    \* TRUE once the channel is closed
  autoFlushStopped, \* TRUE once the channel is closed
  pc,               \* position of each process
  arg,              \* the line a producer passed to ProcessLine
  wr,               \* per process: groups still to write, buffer state at Lock
  sink,             \* the puts the blob sink has accepted, in order
  now,              \* time.Now()
  failures,         \* sink writes that have failed so far
  admissions,       \* every line ProcessLine has handled, in order
  last,             \* the call of ProcessLine or Flush that the latest step returned from
  autoFlush,        \* the -auto-flush flag
  called,           \* per /flush request in progress: the records admitted by returned calls when it called Flush
  req,              \* per receiver: the request or connection its handler is serving
  udp,              \* the GELF UDP receiver: receive buffer, datagram workers, what they parsed
  tcp,              \* a GELF TCP connection: byte stream, read position, buffer, messages submitted
  conv,             \* one call of an extractor or of ProcessGELF: its input and what it produced
  lk                \* the locks and channels of the ingestor and where each goroutine is in its lock operations

vars == <<lineCount, duplicateCount, batchNumber, batch, dedupCache, partitionMap,
          mu, stopAutoFlush, autoFlushStopped, pc, arg, wr, sink, now, failures,
          admissions, last, autoFlush, called, req, udp, tcp, conv, lk>>

\* the variables of the LogIngestor and of its callers
ingestorVars == <<lineCount, duplicateCount, batchNumber, batch, dedupCache,
                  partitionMap, mu, stopAutoFlush, autoFlushStopped, pc, arg, wr,
                  sink, now, failures, admissions, last, autoFlush, called, req>>

\* ---- pure helpers ----------------------------------------------------------
NewBatch(t, n) == [Entries |-> <<>>, StartTime |-> t, EndTime |-> t, BatchNumber |-> n]

parseTimestamp(line, t) == IF line.ts = NoTs THEN t ELSE line.ts

extractLevel(line) == line.lvl

\* sha256 over message and formatted timestamp: equal inputs give equal
\* hashes; the pair stands for the digest.
computeContentHash(message, timestamp) == <<message, timestamp>>

\* partition key that leaves the level out
GetPartitionKey_DateOnly(entry) == <<entry.Timestamp \div 2, "">>

\* date=YYYY-MM-DD[/level=<level>]; a model day lasts two clock units. The
\* level part is "" when it is left out.
GetPartitionKey(entry) ==
  <<entry.Timestamp \div 2,
    IF entry.Level # "" /\ entry.Level # "unknown" THEN entry.Level ELSE "">>

generateFileName(start, end, batchNum) == <<start \div 2, start, batchNum>>

NewDedupCache(maxSize) == [hashes |-> {}, order |-> <<>>, maxSize |-> maxSize]

\* Contains that never finds the hash
Contains_Never(dc, hash) == FALSE

Contains(dc, hash) == hash \in dc.hashes

\* Add with the eviction test off by one: evicts as soon as the window is full
Add_EvictEarly(dc, hash) ==
  IF hash \in dc.hashes THEN dc
  ELSE LET hs == dc.hashes \cup {hash}
           o == Append(dc.order, hash)
       IN IF Len(o) >= dc.maxSize
            THEN [dc EXCEPT !.hashes = hs \ {o[1]}, !.order = Tail(o)]
            ELSE [dc EXCEPT !.hashes = hs, !.order = o]

\* Add evicting the most recent earlier member instead of the oldest
Add_EvictRecent(dc, hash) ==
  IF hash \in dc.hashes THEN dc
  ELSE LET hs == dc.hashes \cup {hash}
           o == Append(dc.order, hash)
           n == Len(o)
       IN IF n > dc.maxSize /\ n > 1
            THEN [dc EXCEPT !.hashes = hs \ {o[n - 1]},
                            !.order = SubSeq(o, 1, n - 2) \o <<o[n]>>]
            ELSE [dc EXCEPT !.hashes = hs, !.order = o]

\* Add that never evicts
Add_NoEvict(dc, hash) ==
  IF hash \in dc.hashes THEN dc
  ELSE [dc EXCEPT !.hashes = @ \cup {hash}, !.order = Append(@, hash)]

\* Add that moves a hash it already holds to the newest position
Add_Refresh(dc, hash) ==
  LET kept == SelectSeq(dc.order, LAMBDA x : x # hash)
      o == Append(kept, hash)
  IN IF Len(o) > dc.maxSize
       THEN [dc EXCEPT !.hashes = (@ \cup {hash}) \ {o[1]}, !.order = Tail(o)]
       ELSE [dc EXCEPT !.hashes = @ \cup {hash}, !.order = o]

Add(dc, hash) ==
  IF hash \in dc.hashes THEN dc
  ELSE LET hs == dc.hashes \cup {hash}
           o == Append(dc.order, hash)
       IN IF Len(o) > dc.maxSize
            THEN [dc EXCEPT !.hashes = hs \ {o[1]}, !.order = Tail(o)]
            ELSE [dc EXCEPT !.hashes = hs, !.order = o]

Size(dc) == Cardinality(dc.hashes)

\* ---- the ingestor ----------------------------------------------------------
\* Lock that never waits
CanLock_Always(m) == TRUE

CanLock(m) == m = Free

\* li.flushBatch without its empty-batch return
BatchIsEmpty_Never(b) == FALSE

BatchIsEmpty(b) == Len(b.Entries) = 0

\* size test with > instead of >=
BatchIsFull_Strict(b) == Len(b.Entries) > BatchSize

BatchIsFull(b) == Len(b.Entries) >= BatchSize

\* line numbers restarting in every batch
EntryLineNumber_PerBatch(lc, b) == Len(b.Entries) + 1

EntryLineNumber(lc, b) == lc

\* ProcessLine appending without moving the start of the batch's time range
AppendEntry_EndOnly(b, entry) ==
  [b EXCEPT !.EndTime = IF entry.Timestamp > @ THEN entry.Timestamp ELSE @,
            !.Entries = Append(@, entry)]

\* ProcessLine: widen the batch's time range to the entry's timestamp, append
AppendEntry(b, entry) ==
  [b EXCEPT !.StartTime = IF entry.Timestamp < @ THEN entry.Timestamp ELSE @,
            !.EndTime = IF entry.Timestamp > @ THEN entry.Timestamp ELSE @,
            !.Entries = Append(@, entry)]

RetPc(p) ==
  IF p \in Producers \cup Flushers THEN "idle"
  ELSE IF p = Worker THEN "w_select" ELSE "s_done"

OpOf(p) == IF p \in Producers THEN "ProcessLine" ELSE "Flush"

NoWrite == [groups |-> {}, len0 |-> 0, bn0 |-> 0]

NoReturn == [proc |-> "none", op |-> "none", res |-> "none", len0 |-> 0, bn0 |-> 0]

\* partition groups of flushBatch(batch, s3Client)
PartitionGroups(b) == { GetPartitionKey(b.Entries[i]) : i \in 1..Len(b.Entries) }

GroupEntries(b, g) == SelectSeq(b.Entries, LAMBDA e : GetPartitionKey(e) = g)

RECURSIVE LineNumbers(_)
LineNumbers(es) ==
  IF es = <<>> THEN <<>> ELSE <<Head(es).LineNumber>> \o LineNumbers(Tail(es))

\* object key without the partition path
ObjectKey_NoPartition(b, g) == <<<<0, "">>, generateFileName(b.StartTime, b.EndTime, b.BatchNumber)>>

ObjectKey(b, g) == <<g, generateFileName(b.StartTime, b.EndTime, b.BatchNumber)>>

Returned(p, res, l0, b0) ==
  [proc |-> p, op |-> OpOf(p), res |-> res, len0 |-> l0, bn0 |-> b0]

\* a receiver that serves no request: its ProcessLine calls come one by one
NoRequest ==
  [kind |-> "none", rest |-> <<>>, idx |-> 0, status |-> "none", n |-> 0, errs |-> 0]

\* what the handler answers when its loop ends: 200 with the statistics on
\* HTTP; the TCP handler returns at EOF
LoopEnd(r) ==
  IF r.rest # <<>> THEN "open" ELSE IF r.kind = "tcp" THEN "closed" ELSE "200"

\* an /ingest handler that logs the error and goes on with the next line
HandlerSees_Continue(p, res) ==
  IF p \in Producers /\ req[p].kind # "none"
    THEN LET r == req[p]
         IN [req EXCEPT ![p] =
               IF res = "ok" THEN [r EXCEPT !.n = @ + 1, !.status = LoopEnd(r)]
               ELSE [r EXCEPT !.errs = @ + 1, !.status = LoopEnd(r)]]
    ELSE req

\* the handler of receiver p gets the value ProcessLine returned: nil counts
\* the line; on an error /ingest answers 500 and returns, /gelf and TCP log it
\* and go on with the next line
HandlerSees(p, res) ==
  IF p \in Producers /\ req[p].kind # "none"
    THEN LET r == req[p]
         IN [req EXCEPT ![p] =
               IF res = "ok" THEN [r EXCEPT !.n = @ + 1, !.status = LoopEnd(r)]
               ELSE IF r.kind = "ingest"
                 THEN [r EXCEPT !.errs = @ + 1, !.status = "500"]
                 ELSE [r EXCEPT !.errs = @ + 1, !.status = LoopEnd(r)]]
    ELSE req

\* where a line came from: the receiver and the position in its body or stream
Src(p) == IF req[p].kind = "none" THEN <<"none", 0>> ELSE <<p, req[p].idx>>

\* line numbers of the records whose ProcessLine call has returned: every
\* admitted record but the one of a call still inside its size-triggered flush
ReturnedRecords ==
  { admissions[i].ln : i \in { j \in DOMAIN admissions : admissions[j].admitted } }
    \ (IF \E p \in Producers : pc[p] = "writing"
         THEN {admissions[Len(admissions)].ln} ELSE {})

\* no UDP datagram and no TCP stream
\* payload bytes of a datagram (0 is the zero byte of a fresh buffer)
Bytes == {1, 2}

RECURSIVE SeqsUpTo(_, _)
\* the sequences over S of length 0..n
SeqsUpTo(S, n) ==
  IF n = 0 THEN {<<>>}
  ELSE LET shorter == SeqsUpTo(S, n - 1)
       IN shorter \cup { Append(q, x) : q \in shorter, x \in S }

Datagrams == SeqsUpTo(Bytes, MaxDatagramLen) \ {<<>>}

\* StartGELFUDPServer before its loop: the arriving datagrams, how many were
\* received, how many bytes of the next one are in the buffer, the one receive
\* buffer, the running datagram goroutines and what each has unmarshalled
UdpServer(dgrams) ==
  [dgrams |-> dgrams, pos |-> 0, copied |-> 0,
   buffer |-> [i \in 1..MaxDatagramLen |-> 0], workers |-> {}, parsed |-> {}]

NoUdp == UdpServer(<<>>)

\* bytes of a TCP stream: 0 is the null terminator
TcpBytes == {0, 1, 2}

\* handleGELFConnection before its loop: the bytes the peer sends, how many
\* were read, the accumulation buffer, the messages handed to ProcessGELF
TcpConn(stream) ==
  [stream |-> stream, pos |-> 0, buffer |-> <<>>, out |-> <<>>, closed |-> FALSE]

NoTcp == [TcpConn(<<>>) EXCEPT !.closed = TRUE]

\* index of the first zero byte of buf, 0 when there is none
FirstNull(buf) ==
  IF \E i \in DOMAIN buf : buf[i] = 0
    THEN CHOOSE i \in DOMAIN buf : buf[i] = 0 /\ \A j \in 1..(i - 1) : buf[j] # 0
    ELSE 0

RECURSIVE Drain_DropsPartial(_)
\* the inner loop keeping nothing of a message that is not complete yet
Drain_DropsPartial(buf) ==
  LET nullIdx == FirstNull(buf)
  IN IF nullIdx = 0 THEN [buffer |-> <<>>, msgs |-> <<>>]
     ELSE LET messageBytes == SubSeq(buf, 1, nullIdx - 1)
              more == Drain_DropsPartial(SubSeq(buf, nullIdx + 1, Len(buf)))
          IN [buffer |-> more.buffer,
              msgs |-> (IF Len(messageBytes) = 0 THEN <<>> ELSE <<messageBytes>>)
                         \o more.msgs]

RECURSIVE Drain(_)
\* the inner loop of handleGELFConnection: take every null-terminated message
\* out of the buffer, skip the empty ones, keep the rest
Drain(buf) ==
  LET nullIdx == FirstNull(buf)
  IN IF nullIdx = 0 THEN [buffer |-> buf, msgs |-> <<>>]
     ELSE LET messageBytes == SubSeq(buf, 1, nullIdx - 1)
              more == Drain(SubSeq(buf, nullIdx + 1, Len(buf)))
          IN [buffer |-> more.buffer,
              msgs |-> (IF Len(messageBytes) = 0 THEN <<>> ELSE <<messageBytes>>)
                         \o more.msgs]

\* ---- severity extraction ------------------------------------------------------
\* -level-fields, split at the commas
levelFields == <<"level", "severity", "severityText">>

\* JSON values of a line: a string, or an integer written as its decimal digits
JsonStr(s) == [kind |-> "str", str |-> s, num |-> <<>>]
JsonNum(d) == [kind |-> "num", str |-> "", num |-> d]
JsonNull == [kind |-> "null", str |-> "", num |-> <<>>]

\* strings.ToLower on the level words of the model
ToLower(s) ==
  CASE s = "ERROR" -> "error"
    [] s = "Warning" -> "warning"
    [] s = "PANIC" -> "panic"
    [] s = "Notice" -> "notice"
    [] OTHER -> s

RECURSIVE StrLeq(_, _)
\* Go's <= on two strings of decimal digits: byte by byte, a proper prefix is smaller
StrLeq(a, b) ==
  IF a = <<>> THEN TRUE
  ELSE IF b = <<>> THEN FALSE
  ELSE IF a[1] # b[1] THEN a[1] < b[1]
  ELSE StrLeq(Tail(a), Tail(b))

RECURSIVE extractLevelFrom(_, _)
\* the loop of extractLevel from the i-th configured field on. A message is
\* [brace: it starts with "{", fields: its top-level keys and their values]
extractLevelFrom(message, i) ==
  IF i > Len(levelFields) THEN "unknown"
  ELSE
    LET field == levelFields[i]
        next == extractLevelFrom(message, i + 1)
    IN IF field \notin DOMAIN message.fields THEN next
       ELSE
         LET v == message.fields[field]
             num == v.num
         IN IF v.kind = "str" /\ v.str # ""
              THEN LET level == ToLower(v.str)
                   IN CASE level = "warning" -> "warn"
                        [] level = "err" -> "error"
                        [] level = "trace" -> "debug"
                        [] level \in {"fatal", "critical"} -> "error"
                        [] OTHER -> level
            ELSE IF v.kind = "num"
              THEN IF StrLeq(<<1>>, num) /\ StrLeq(num, <<4>>) THEN "debug"
                   ELSE IF StrLeq(<<5>>, num) /\ StrLeq(num, <<8>>) THEN "info"
                   ELSE IF StrLeq(<<9>>, num) /\ StrLeq(num, <<1, 2>>) THEN "warn"
                   ELSE IF StrLeq(<<1, 3>>, num) THEN "error"
                   ELSE next
            ELSE next

\* extractLevel on the text of a line
extractLevelOf(message) ==
  IF ~message.brace THEN "unknown" ELSE extractLevelFrom(message, 1)

\* ---- GELF envelopes ---------------------------------------------------------------
\* -timestamp-fields, split at the commas
timestampFields == <<"timestamp", "time", "@timestamp">>

\* the string t.Format(time.RFC3339Nano) writes for the instant t
JsonTime(t) == [kind |-> "time", str |-> "", num |-> <<t>>]

\* the normalisation switch of parseLevelFromMessage: "" when the word is not listed
KnownLevel(level) ==
  CASE level = "warning" -> "warn"
    [] level = "err" -> "error"
    [] level = "trace" -> "debug"
    [] level \in {"fatal", "panic", "critical"} -> "error"
    [] level \in {"error", "warn", "info", "debug"} -> level
    [] OTHER -> ""

\* A short_message is [brace: it starts with "{" and is a JSON object, fields:
\* its keys, logrus: the word after the first "level=" in it, "" when none]
parseLevelFromMessage(message) ==
  LET try1 == IF /\ message.brace
                 /\ "level" \in DOMAIN message.fields
                 /\ message.fields["level"].kind = "str"
               THEN KnownLevel(ToLower(message.fields["level"].str))
               ELSE ""
      try2 == IF message.logrus # "" THEN KnownLevel(ToLower(message.logrus)) ELSE ""
  IN IF try1 # "" THEN try1 ELSE try2

\* the fallback switch of ProcessGELF on the syslog level of the envelope
GelfLevel(n) ==
  IF n \in {0, 1, 2} THEN "error"
  ELSE IF n = 3 THEN "error"
  ELSE IF n = 4 THEN "warn"
  ELSE IF n = 5 THEN "info"
  ELSE IF n = 6 THEN "info"
  ELSE IF n = 7 THEN "debug"
  ELSE "info"

\* the name of an extra left as it is
StripUnderscore_Keep(k) == k

\* k[1:] on the names of the extras
StripUnderscore(k) ==
  CASE k = "_foo" -> "foo"
    [] k = "__foo" -> "_foo"
    [] k = "_level" -> "level"
    [] k = "_timestamp" -> "timestamp"
    [] k = "_message" -> "message"
    [] k = "_host" -> "host"

\* the keys ProcessGELF sets before it adds the extras; t is time.Now()
GelfBuiltIns(gelf, t) ==
  LET levelStr == IF parseLevelFromMessage(gelf.ShortMessage) = ""
                    THEN GelfLevel(gelf.Level)
                    ELSE parseLevelFromMessage(gelf.ShortMessage)
      ts == IF gelf.Timestamp > 0 THEN gelf.Timestamp ELSE t
  IN [k \in {"message", "level", "timestamp"}
             \cup (IF gelf.Host # "" THEN {"host"} ELSE {}) |->
        CASE k = "message" -> [kind |-> "msg", str |-> "", num |-> <<>>]
          [] k = "level" -> JsonStr(levelStr)
          [] k = "timestamp" -> JsonTime(ts)
          [] k = "host" -> JsonStr(gelf.Host)]

\* logMap when ProcessGELF marshals it: the extras are assigned last
GelfLogMap(gelf, t) ==
  LET builtIns == GelfBuiltIns(gelf, t)
      stripped == {StripUnderscore(k) : k \in DOMAIN gelf.Extra}
  IN [k \in DOMAIN builtIns \cup stripped |->
        IF k \in stripped
          THEN gelf.Extra[CHOOSE e \in DOMAIN gelf.Extra : StripUnderscore(e) = k]
          ELSE builtIns[k]]

RECURSIVE parseTimestampFrom(_, _)
\* the JSON loop of parseTimestamp from the i-th configured field on: the
\* first field holding a string that parses as a time; NoTs when none does
parseTimestampFrom(fields, i) ==
  IF i > Len(timestampFields) THEN NoTs
  ELSE LET field == timestampFields[i]
       IN IF field \in DOMAIN fields /\ fields[field].kind = "time"
            THEN fields[field].num[1]
            ELSE parseTimestampFrom(fields, i + 1)

\* the line ProcessGELF passes to ProcessLine, as ProcessLine reads it
GelfLine(logMap) ==
  [msg |-> logMap,
   ts |-> parseTimestampFrom(logMap, 1),
   lvl |-> extractLevelOf([brace |-> TRUE, fields |-> logMap])]

\* ---- locks and channels ----------------------------------------------------------
\* an RWMutex nobody holds
Unlocked == [w |-> "free", r |-> {}]

\* the lock and channel operations of each function, in program order; "write"
\* is the call of the writer, which returns
ProcessLineOps_Relock ==
  << <<"Lock", "mu">>, <<"RLock", "dc">>, <<"RUnlock", "dc">>, <<"Lock", "dc">>,
     <<"Unlock", "dc">>, <<"Lock", "pt">>, <<"Unlock", "pt">>, <<"Lock", "mu">>,
     <<"Unlock", "mu">> >>

ProcessLineOps ==
  << <<"Lock", "mu">>, <<"RLock", "dc">>, <<"RUnlock", "dc">>, <<"Lock", "dc">>,
     <<"Unlock", "dc">>, <<"Lock", "pt">>, <<"Unlock", "pt">>, <<"write", "sink">>,
     <<"Unlock", "mu">> >>

FlushOps == << <<"Lock", "mu">>, <<"write", "sink">>, <<"Unlock", "mu">> >>

GetStatsOps ==
  << <<"Lock", "mu">>, <<"RLock", "pt">>, <<"RUnlock", "pt">>, <<"Unlock", "mu">> >>

SizeOps == << <<"RLock", "dc">>, <<"RUnlock", "dc">> >>

StopOps == << <<"close", "stopAutoFlush">>, <<"recv", "autoFlushStopped">> >> \o FlushOps

\* the loop of autoFlushWorker: select, the look at the batch, Flush, and the
\* deferred close when the stop case is taken
WorkerOps ==
  << <<"select", "ticker">>, <<"Lock", "mu">>, <<"Unlock", "mu">> >> \o FlushOps
    \o << <<"loop", "for">>, <<"close", "autoFlushStopped">> >>

OpsOf(call) ==
  CASE call = "ProcessLine" -> ProcessLineOps
    [] call = "Flush" -> FlushOps
    [] call = "GetStats" -> GetStatsOps
    [] call = "Size" -> SizeOps
    [] call = "Stop" -> StopOps
    [] call = "autoFlushWorker" -> WorkerOps
    [] OTHER -> <<>>

\* the branches that depend on data: <<call, from, to>> lets the call go from
\* operation from straight to operation to (a duplicate; a batch that is not
\* full; an empty batch)
Jumps ==
  { <<"ProcessLine", 4, 9>>, <<"ProcessLine", 8, 9>>, <<"Flush", 2, 3>>,
    <<"Stop", 4, 5>>, <<"autoFlushWorker", 4, 7>>, <<"autoFlushWorker", 5, 6>> }

\* what each goroutine may call: one handler feeds lines, one reads the
\* statistics, /flush flushes, the shutdown path stops
CallsOf(p) ==
  IF p = "p1" THEN {"ProcessLine"}
  ELSE IF p = "p2" THEN {"GetStats", "Size"}
  ELSE IF p \in Flushers THEN {"Flush"}
  ELSE IF p = Stopper THEN {"Stop"}
  ELSE {}

Resting == [call |-> "idle", i |-> 0]

\* NewLogIngestor with -auto-flush: every lock free, both channels open, the
\* worker goroutine at its select
NewLocks ==
  [mu |-> "free", dc |-> Unlocked, pt |-> Unlocked,
   stopAutoFlush |-> FALSE, autoFlushStopped |-> FALSE, stops |-> 0, crashed |-> FALSE,
   at |-> [p \in Procs |-> IF p = Worker THEN [call |-> "autoFlushWorker", i |-> 1]
                           ELSE Resting]]

\* no goroutine under observation
NoLocks == [NewLocks EXCEPT !.at = [p \in Procs |-> Resting]]

\* the operation goroutine p is about to do
NextOp(p) ==
  LET ops == OpsOf(lk.at[p].call)
  IN IF lk.at[p].i \in DOMAIN ops THEN ops[lk.at[p].i] ELSE <<"return", "">>

\* no extractor call under observation
NoConv == [fn |-> "none", in |-> <<>>, out |-> <<>>, done |-> TRUE]

NoTraffic == udp = NoUdp /\ tcp = NoTcp /\ conv = NoConv /\ lk = NoLocks

InitIngestor(af, receivers) ==
  /\ autoFlush = af
  /\ lineCount = 0
  /\ duplicateCount = 0
  /\ batchNumber = 0
  /\ now = 1
  /\ batch = NewBatch(1, 0)
  /\ dedupCache = NewDedupCache(DedupWindow)
  /\ partitionMap = {}
  /\ mu = Free
  /\ stopAutoFlush = FALSE
  /\ autoFlushStopped = FALSE
  /\ pc = [p \in Procs |->
             IF p = Worker THEN (IF af THEN "w_select" ELSE "w_off")
             ELSE IF p \in Producers \ receivers THEN "off"
             ELSE "idle"]
  /\ arg = [p \in Producers |-> CHOOSE l \in Lines : l.msg = "a"]
  /\ wr = [p \in Procs |-> NoWrite]
  /\ sink = <<>>
  /\ failures = 0
  /\ admissions = <<>>
  /\ last = NoReturn
  /\ called = [p \in Procs |-> {}]
  /\ req = [p \in Producers |-> NoRequest]

\* -auto-flush=false: no worker goroutine; two receivers feed the ingestor
Init == InitIngestor(FALSE, Producers) /\ NoTraffic

\* -auto-flush=false; one receiver feeds the ingestor
InitOne == InitIngestor(FALSE, {"p1"}) /\ NoTraffic

\* -auto-flush=true (the default): NewLogIngestor starts autoFlushWorker; one
\* receiver feeds the ingestor
InitAuto == InitIngestor(TRUE, {"p1"}) /\ NoTraffic

\* a receiver calls ProcessLine(line)
PLCall(p, line, max) ==
  /\ pc[p] = "idle"
  /\ Len(admissions) + Cardinality({q \in Producers : pc[q] = "pl_lock"}) < max
  /\ pc' = [pc EXCEPT ![p] = "pl_lock"]
  /\ arg' = [arg EXCEPT ![p] = line]
  /\ UNCHANGED <<lineCount, duplicateCount, batchNumber, batch, dedupCache,
                 partitionMap, mu, stopAutoFlush, autoFlushStopped, wr, sink, now,
                 failures, admissions, autoFlush, called, req, udp, tcp, conv, lk>>
  /\ last' = NoReturn

\* ProcessLine from Lock to the call of li.flushBatch (or to the return)
PLBody(p) ==
  /\ pc[p] = "pl_lock"
  /\ CanLock(mu)
  /\ LET lc == lineCount + 1
         timestamp == IF logTimestamps THEN parseTimestamp(arg[p], now) ELSE now
         contentHash == computeContentHash(arg[p].msg, timestamp)
     IN /\ lineCount' = lc
        /\ IF deduplicate /\ Contains(dedupCache, contentHash)
             THEN /\ duplicateCount' = duplicateCount + 1
                  /\ admissions' = Append(admissions,
                        [hash |-> contentHash, ln |-> lc, admitted |-> FALSE,
                         src |-> Src(p)])
                  /\ pc' = [pc EXCEPT ![p] = RetPc(p)]
                  /\ last' = Returned(p, "ok", Len(batch.Entries), batchNumber)
                  /\ req' = HandlerSees(p, "ok")
                  /\ UNCHANGED <<batch, dedupCache, partitionMap, mu, wr>>
             ELSE LET entry == [Timestamp |-> timestamp, Message |-> arg[p].msg,
                                Level |-> extractLevel(arg[p]),
                                LineNumber |-> EntryLineNumber(lc, batch),
                                ContentHash |-> contentHash]
                      b1 == AppendEntry(batch, entry)
                  IN /\ duplicateCount' = duplicateCount
                     /\ dedupCache' = IF deduplicate THEN Add(dedupCache, contentHash)
                                      ELSE dedupCache
                     /\ partitionMap' = partitionMap \cup {GetPartitionKey(entry)}
                     /\ batch' = b1
                     /\ admissions' = Append(admissions,
                          [hash |-> contentHash, ln |-> entry.LineNumber, admitted |-> TRUE,
                           src |-> Src(p)])
                     /\ IF BatchIsFull(b1) /\ ~BatchIsEmpty(b1)
                          THEN /\ mu' = p
                               /\ pc' = [pc EXCEPT ![p] = "writing"]
                               /\ wr' = [wr EXCEPT ![p] =
                                    [groups |-> PartitionGroups(b1),
                                     len0 |-> Len(batch.Entries), bn0 |-> batchNumber]]
                               /\ last' = NoReturn
                               /\ req' = req
                          ELSE /\ pc' = [pc EXCEPT ![p] = RetPc(p)]
                               /\ last' = Returned(p, "ok", Len(batch.Entries), batchNumber)
                               /\ req' = HandlerSees(p, "ok")
                               /\ UNCHANGED <<mu, wr>>
  /\ UNCHANGED <<batchNumber, stopAutoFlush, autoFlushStopped, arg, sink, now, failures, autoFlush, called, udp, tcp, conv, lk>>

\* /flush calls Flush()
FlushCall(p) ==
  /\ p \in Flushers
  /\ pc[p] = "idle"
  /\ pc' = [pc EXCEPT ![p] = "fl_lock"]
  /\ UNCHANGED <<lineCount, duplicateCount, batchNumber, batch, dedupCache,
                 partitionMap, mu, stopAutoFlush, autoFlushStopped, arg, wr, sink,
                 now, failures, admissions, autoFlush, req, udp, tcp, conv, lk>>
  /\ called' = [called EXCEPT ![p] = ReturnedRecords]
  /\ last' = NoReturn

\* Flush from Lock to the call of the writer (or to the return on an empty batch)
FlushBody(p) ==
  /\ pc[p] = "fl_lock"
  /\ CanLock(mu)
  /\ IF BatchIsEmpty(batch)
       THEN /\ pc' = [pc EXCEPT ![p] = RetPc(p)]
            /\ last' = Returned(p, "ok", Len(batch.Entries), batchNumber)
            /\ called' = [called EXCEPT ![p] = {}]
            /\ UNCHANGED <<mu, wr>>
       ELSE /\ mu' = p
            /\ pc' = [pc EXCEPT ![p] = "writing"]
            /\ wr' = [wr EXCEPT ![p] = [groups |-> PartitionGroups(batch),
                                        len0 |-> Len(batch.Entries), bn0 |-> batchNumber]]
            /\ last' = NoReturn
            /\ called' = called
  /\ UNCHANGED <<lineCount, duplicateCount, batchNumber, batch, dedupCache,
                 partitionMap, stopAutoFlush, autoFlushStopped, arg, sink, now,
                 failures, admissions, autoFlush, req, udp, tcp, conv, lk>>

\* the writer encodes one partition group and puts it to the sink
WritePut(p) ==
  /\ pc[p] = "writing"
  /\ \E g \in wr[p].groups :
       /\ sink' = Append(sink, [key |-> ObjectKey(batch, g),
                                lns |-> LineNumbers(GroupEntries(batch, g)),
                                bn |-> batch.BatchNumber, att |-> failures])
       /\ wr' = [wr EXCEPT ![p].groups = @ \ {g}]
  /\ UNCHANGED <<lineCount, duplicateCount, batchNumber, batch, dedupCache,
                 partitionMap, mu, stopAutoFlush, autoFlushStopped, pc, arg, now,
                 failures, admissions, autoFlush, called, req, udp, tcp, conv, lk>>
  /\ last' = NoReturn

\* a failed write that installs a fresh batch and drops the records
WriteFail_Reset(p) ==
  /\ pc[p] = "writing"
  /\ wr[p].groups # {}
  /\ failures < MaxFail
  /\ failures' = failures + 1
  /\ batch' = NewBatch(now, batchNumber)
  /\ mu' = Free
  /\ pc' = [pc EXCEPT ![p] = RetPc(p)]
  /\ last' = Returned(p, "err", wr[p].len0, wr[p].bn0)
  /\ wr' = [wr EXCEPT ![p] = NoWrite]
  /\ called' = [called EXCEPT ![p] = {}]
  /\ req' = HandlerSees(p, "err")
  /\ UNCHANGED <<lineCount, duplicateCount, batchNumber, dedupCache,
                 partitionMap, stopAutoFlush, autoFlushStopped, arg, sink, now,
                 admissions, autoFlush, udp, tcp, conv, lk>>

\* a failed write after which the worker goroutine returns instead of looping
WriteFail_WorkerExits(p) ==
  /\ pc[p] = "writing"
  /\ wr[p].groups # {}
  /\ failures < MaxFail
  /\ failures' = failures + 1
  /\ mu' = Free
  /\ pc' = [pc EXCEPT ![p] = IF p = Worker THEN "w_done" ELSE RetPc(p)]
  /\ last' = Returned(p, "err", wr[p].len0, wr[p].bn0)
  /\ wr' = [wr EXCEPT ![p] = NoWrite]
  /\ called' = [called EXCEPT ![p] = {}]
  /\ req' = HandlerSees(p, "err")
  /\ UNCHANGED <<lineCount, duplicateCount, batchNumber, batch, dedupCache,
                 partitionMap, stopAutoFlush, autoFlushStopped, arg, sink, now,
                 admissions, autoFlush, udp, tcp, conv, lk>>

\* a failed group that is skipped: the writer goes on with the other groups
WriteFail_SkipGroup(p) ==
  /\ pc[p] = "writing"
  /\ wr[p].groups # {}
  /\ failures < MaxFail
  /\ failures' = failures + 1
  /\ \E g \in wr[p].groups : wr' = [wr EXCEPT ![p].groups = @ \ {g}]
  /\ last' = Returned(p, "err", wr[p].len0, wr[p].bn0)
  /\ UNCHANGED <<lineCount, duplicateCount, batchNumber, batch, dedupCache,
                 partitionMap, mu, pc, stopAutoFlush, autoFlushStopped, arg, sink, now,
                 admissions, autoFlush, called, req, udp, tcp, conv, lk>>

\* encoding or putting a group fails: the writer, li.flushBatch and the caller return the error
WriteFail(p) ==
  /\ pc[p] = "writing"
  /\ wr[p].groups # {}
  /\ failures < MaxFail
  /\ failures' = failures + 1
  /\ mu' = Free
  /\ pc' = [pc EXCEPT ![p] = RetPc(p)]
  /\ last' = Returned(p, "err", wr[p].len0, wr[p].bn0)
  /\ wr' = [wr EXCEPT ![p] = NoWrite]
  /\ called' = [called EXCEPT ![p] = {}]
  /\ req' = HandlerSees(p, "err")
  /\ UNCHANGED <<lineCount, duplicateCount, batchNumber, batch, dedupCache,
                 partitionMap, stopAutoFlush, autoFlushStopped, arg, sink, now,
                 admissions, autoFlush, udp, tcp, conv, lk>>

\* a successful write that installs the fresh batch without li.batchNumber++
WriteDone_NoIncrement(p) ==
  /\ pc[p] = "writing"
  /\ wr[p].groups = {}
  /\ batch' = NewBatch(now, batchNumber)
  /\ mu' = Free
  /\ pc' = [pc EXCEPT ![p] = RetPc(p)]
  /\ last' = Returned(p, "ok", wr[p].len0, wr[p].bn0)
  /\ wr' = [wr EXCEPT ![p] = NoWrite]
  /\ called' = [called EXCEPT ![p] = {}]
  /\ req' = HandlerSees(p, "ok")
  /\ UNCHANGED <<lineCount, duplicateCount, batchNumber, dedupCache, partitionMap,
                 stopAutoFlush, autoFlushStopped, arg, sink, now, failures,
                 admissions, autoFlush, udp, tcp, conv, lk>>

\* every group is written: li.flushBatch installs a fresh batch and returns nil
WriteDone(p) ==
  /\ pc[p] = "writing"
  /\ wr[p].groups = {}
  /\ batchNumber' = batchNumber + 1
  /\ batch' = NewBatch(now, batchNumber + 1)
  /\ mu' = Free
  /\ pc' = [pc EXCEPT ![p] = RetPc(p)]
  /\ last' = Returned(p, "ok", wr[p].len0, wr[p].bn0)
  /\ wr' = [wr EXCEPT ![p] = NoWrite]
  /\ called' = [called EXCEPT ![p] = {}]
  /\ req' = HandlerSees(p, "ok")
  /\ UNCHANGED <<lineCount, duplicateCount, dedupCache, partitionMap, stopAutoFlush,
                 autoFlushStopped, arg, sink, now, failures, admissions, autoFlush, udp, tcp, conv, lk>>

\* autoFlushWorker: the ticker fires
WorkerTick ==
  /\ pc[Worker] = "w_select"
  /\ pc' = [pc EXCEPT ![Worker] = "w_check"]
  /\ UNCHANGED <<lineCount, duplicateCount, batchNumber, batch, dedupCache,
                 partitionMap, mu, stopAutoFlush, autoFlushStopped, arg, wr, sink,
                 now, failures, admissions, autoFlush, called, req, udp, tcp, conv, lk>>
  /\ last' = NoReturn

\* autoFlushWorker: Lock, read len(li.batch.Entries), Unlock, then Flush or continue
WorkerCheck ==
  /\ pc[Worker] = "w_check"
  /\ CanLock(mu)
  /\ pc' = [pc EXCEPT ![Worker] = IF Len(batch.Entries) = 0 THEN "w_select" ELSE "fl_lock"]
  /\ UNCHANGED <<lineCount, duplicateCount, batchNumber, batch, dedupCache,
                 partitionMap, mu, stopAutoFlush, autoFlushStopped, arg, wr, sink,
                 now, failures, admissions, autoFlush, req, udp, tcp, conv, lk>>
  /\ called' = called
  /\ last' = NoReturn

\* autoFlushWorker: the stop channel is closed, the worker returns
WorkerStop ==
  /\ pc[Worker] = "w_select"
  /\ stopAutoFlush
  /\ pc' = [pc EXCEPT ![Worker] = "w_done"]
  /\ autoFlushStopped' = TRUE
  /\ UNCHANGED <<lineCount, duplicateCount, batchNumber, batch, dedupCache,
                 partitionMap, mu, stopAutoFlush, arg, wr, sink, now, failures,
                 admissions, autoFlush, called, req, udp, tcp, conv, lk>>
  /\ last' = NoReturn

\* Stop: close(li.stopAutoFlush)
StopClose ==
  /\ pc[Stopper] = "idle"
  /\ stopAutoFlush' = TRUE
  /\ pc' = [pc EXCEPT ![Stopper] = "s_wait"]
  /\ UNCHANGED <<lineCount, duplicateCount, batchNumber, batch, dedupCache,
                 partitionMap, mu, autoFlushStopped, arg, wr, sink, now, failures,
                 admissions, autoFlush, called, req, udp, tcp, conv, lk>>
  /\ last' = NoReturn

\* Stop that goes on to its final Flush without waiting for the worker
StopWait_NoWait ==
  /\ pc[Stopper] = "s_wait"
  /\ pc' = [pc EXCEPT ![Stopper] = "fl_lock"]
  /\ UNCHANGED <<lineCount, duplicateCount, batchNumber, batch, dedupCache,
                 partitionMap, mu, stopAutoFlush, autoFlushStopped, arg, wr, sink,
                 now, failures, admissions, autoFlush, req, udp, tcp, conv, lk>>
  /\ called' = called
  /\ last' = NoReturn

\* Stop: <-li.autoFlushStopped, then li.Flush()
StopWait ==
  /\ pc[Stopper] = "s_wait"
  /\ autoFlushStopped
  /\ pc' = [pc EXCEPT ![Stopper] = "fl_lock"]
  /\ UNCHANGED <<lineCount, duplicateCount, batchNumber, batch, dedupCache,
                 partitionMap, mu, stopAutoFlush, autoFlushStopped, arg, wr, sink,
                 now, failures, admissions, autoFlush, req, udp, tcp, conv, lk>>
  /\ called' = called
  /\ last' = NoReturn

\* the wall clock advances
Tick ==
  /\ now < MaxNow
  /\ now' = now + 1
  /\ UNCHANGED <<lineCount, duplicateCount, batchNumber, batch, dedupCache,
                 partitionMap, mu, stopAutoFlush, autoFlushStopped, pc, arg, wr,
                 sink, failures, admissions, autoFlush, called, req, udp, tcp, conv, lk>>
  /\ last' = NoReturn

\* ---- request handlers: /ingest, /gelf and a GELF TCP connection ------------------
\* the endpoints receiver p serves
KindsOf(p) == IF p = "p1" THEN {"ingest", "gelf"} ELSE {"tcp"}

Bodies == SeqsUpTo(Lines, MaxBody) \ {<<>>}

\* lines of the request receiver q serves, handled or not
ReqLines(q) == req[q].idx + Len(req[q].rest)

\* a request (or a connection) arrives with its lines
HRequest(p, kind, body) ==
  /\ pc[p] = "idle"
  /\ req[p].kind = "none"
  /\ \A q \in Producers \ {p} : Len(body) + ReqLines(q) <= MaxLinesFail
  /\ req' = [req EXCEPT ![p] = [NoRequest EXCEPT !.kind = kind, !.rest = body,
                                                  !.status = "open"]]
  /\ last' = NoReturn
  /\ UNCHANGED <<lineCount, duplicateCount, batchNumber, batch, dedupCache,
                 partitionMap, mu, stopAutoFlush, autoFlushStopped, pc, arg, wr, sink,
                 now, failures, admissions, autoFlush, called, udp, tcp, conv, lk>>

\* the handler's loop takes the next line and calls ProcessLine (through
\* ProcessGELF on /gelf and on TCP)
HCall(p) ==
  /\ pc[p] = "idle"
  /\ req[p].status = "open"
  /\ req[p].rest # <<>>
  /\ arg' = [arg EXCEPT ![p] = Head(req[p].rest)]
  /\ req' = [req EXCEPT ![p].rest = Tail(@), ![p].idx = @ + 1]
  /\ pc' = [pc EXCEPT ![p] = "pl_lock"]
  /\ last' = NoReturn
  /\ UNCHANGED <<lineCount, duplicateCount, batchNumber, batch, dedupCache,
                 partitionMap, mu, stopAutoFlush, autoFlushStopped, wr, sink,
                 now, failures, admissions, autoFlush, called, udp, tcp, conv, lk>>

\* an HTTP request on p1 and a TCP connection on p2, sink writes may fail
NextHttp ==
  \/ \E p \in Producers, body \in Bodies : \E kind \in KindsOf(p) : HRequest(p, kind, body)
  \/ \E p \in Producers : HCall(p)
  \/ \E p \in Producers : PLBody(p)
  \/ \E p \in Procs : WritePut(p)
  \/ \E p \in Procs : WriteFail(p)
  \/ \E p \in Procs : WriteDone(p)
  \/ Tick

\* ---- GELF UDP receiver ----------------------------------------------------------
\* conn.ReadFromUDP(buffer) stores the next byte of the arriving datagram in the
\* receive buffer
UdpCopy ==
  /\ udp.pos < Len(udp.dgrams)
  /\ udp.copied < Len(udp.dgrams[udp.pos + 1])
  /\ udp' = [udp EXCEPT !.copied = @ + 1,
                        !.buffer[udp.copied + 1] = udp.dgrams[udp.pos + 1][udp.copied + 1]]
  /\ UNCHANGED <<ingestorVars, tcp, conv, lk>>

\* ReadFromUDP returns n; the loop starts a goroutine on buffer[:n] and reads again
UdpSpawn ==
  /\ udp.pos < Len(udp.dgrams)
  /\ udp.copied = Len(udp.dgrams[udp.pos + 1])
  /\ udp' = [udp EXCEPT !.pos = @ + 1, !.copied = 0,
                        !.workers = @ \cup {[id |-> udp.pos + 1, n |-> udp.copied,
                                              data |-> <<>>]}]
  /\ UNCHANGED <<ingestorVars, tcp, conv, lk>>

\* the goroutine of datagram id: json.Unmarshal reads the next byte of data,
\* which is the receive buffer itself
UdpWorkerRead(id) ==
  /\ \E w \in udp.workers :
       /\ w.id = id
       /\ Len(w.data) < w.n
       /\ udp' = [udp EXCEPT !.workers = (@ \ {w}) \cup
                     {[w EXCEPT !.data = Append(@, udp.buffer[Len(w.data) + 1])]}]
  /\ UNCHANGED <<ingestorVars, tcp, conv, lk>>

\* json.Unmarshal is done: the message handed to ProcessGELF is built from
\* the bytes it read
UdpWorkerParse(id) ==
  /\ \E w \in udp.workers :
       /\ w.id = id
       /\ Len(w.data) = w.n
       /\ udp' = [udp EXCEPT !.workers = @ \ {w},
                             !.parsed = @ \cup {[id |-> w.id, data |-> w.data]}]
  /\ UNCHANGED <<ingestorVars, tcp, conv, lk>>

\* a burst of datagrams arrives at the GELF UDP receiver
InitUdp ==
  /\ InitIngestor(FALSE, {})
  /\ lk = NoLocks
  /\ tcp = NoTcp
  /\ conv = NoConv
  /\ \E dgrams \in SeqsUpTo(Datagrams, MaxDatagrams) : udp = UdpServer(dgrams)

NextUdp ==
  \/ UdpCopy
  \/ UdpSpawn
  \/ \E id \in 1..MaxDatagrams : UdpWorkerRead(id)
  \/ \E id \in 1..MaxDatagrams : UdpWorkerParse(id)

\* ---- GELF TCP connection --------------------------------------------------------
\* conn.Read returns the next n bytes; they are appended to the buffer and the
\* complete messages are handed to ProcessGELF
TcpRead(n) ==
  /\ ~tcp.closed
  /\ tcp.pos + n <= Len(tcp.stream)
  /\ LET readBuf == SubSeq(tcp.stream, tcp.pos + 1, tcp.pos + n)
         d == Drain(tcp.buffer \o readBuf)
     IN tcp' = [tcp EXCEPT !.pos = @ + n, !.buffer = d.buffer, !.out = @ \o d.msgs]
  /\ UNCHANGED <<ingestorVars, udp, conv, lk>>

\* a handler that hands the unterminated rest of the buffer to ProcessGELF at EOF
TcpClose_SubmitsTail ==
  /\ ~tcp.closed
  /\ tcp' = [tcp EXCEPT !.closed = TRUE, !.buffer = <<>>,
                        !.out = IF tcp.buffer = <<>> THEN @ ELSE Append(@, tcp.buffer)]
  /\ UNCHANGED <<ingestorVars, udp, conv, lk>>

\* conn.Read returns EOF or an error: the handler returns and closes the connection
TcpClose ==
  /\ ~tcp.closed
  /\ tcp' = [tcp EXCEPT !.closed = TRUE, !.buffer = <<>>]
  /\ UNCHANGED <<ingestorVars, udp, conv, lk>>

\* a peer connects and sends a byte stream
InitTcp ==
  /\ InitIngestor(FALSE, {})
  /\ lk = NoLocks
  /\ udp = NoUdp
  /\ conv = NoConv
  /\ \E stream \in SeqsUpTo(TcpBytes, MaxStream) : tcp = TcpConn(stream)

NextTcp ==
  \/ \E n \in 1..MaxRead : TcpRead(n)
  \/ TcpClose

\* ---- one call of extractLevel ---------------------------------------------------
\* the decimal numerals of at most n digits, without leading zeros
Numerals(n) ==
  { d \in SeqsUpTo(0..9, n) : d # <<>> /\ (Len(d) > 1 => d[1] # 0) }

\* what the first level field of a line holds
LevelWords ==
  {"error", "warn", "info", "debug", "warning", "err", "trace", "fatal",
   "critical", "panic", "ERROR", "Warning", "PANIC", "Notice", ""}

LevelValues ==
  {JsonStr(s) : s \in LevelWords} \cup {JsonNum(d) : d \in Numerals(MaxDigits)}
    \cup {JsonNull}

\* what the second level field holds
SeverityValues == {JsonStr("info"), JsonStr("err"), JsonNum(<<9>>)}

\* the lines: plain text, or a JSON object with some of the level fields
Messages ==
  {[brace |-> FALSE, fields |-> <<>>], [brace |-> TRUE, fields |-> <<>>]}
    \cup {[brace |-> TRUE, fields |-> [k \in {"level"} |-> l]] : l \in LevelValues}
    \cup {[brace |-> TRUE, fields |-> [k \in {"severity"} |-> s]] : s \in SeverityValues}
    \cup {[brace |-> TRUE,
           fields |-> [k \in {"level", "severity"} |-> IF k = "level" THEN l ELSE s]] :
             l \in LevelValues, s \in SeverityValues}

InitLevel ==
  /\ InitIngestor(FALSE, {})
  /\ lk = NoLocks
  /\ udp = NoUdp /\ tcp = NoTcp
  /\ \E message \in Messages :
       conv = [fn |-> "extractLevel", in |-> message, out |-> "", done |-> FALSE]

\* ProcessLine's call level := extractLevel(line)
CallExtractLevel ==
  /\ conv.fn = "extractLevel" /\ ~conv.done
  /\ conv' = [conv EXCEPT !.out = extractLevelOf(conv.in), !.done = TRUE]
  /\ UNCHANGED <<ingestorVars, udp, tcp, lk>>

NextLevel == CallExtractLevel

SpecLevel == InitLevel /\ [][NextLevel]_vars

\* ---- one GELF message ------------------------------------------------------------
ExtraNames == {"_foo", "__foo", "_level", "_timestamp", "_message", "_host"}

ExtraValues == {JsonStr("bar"), JsonStr("debug"), JsonNum(<<7>>)}

\* g.Extra after UnmarshalJSON: the keys of the envelope that start with "_"
Extras ==
  UNION { [names -> ExtraValues] :
            names \in {n \in SUBSET ExtraNames : Cardinality(n) <= MaxExtras} }

ShortMessages ==
  {[brace |-> FALSE, fields |-> <<>>, logrus |-> w] : w \in {"", "Warning", "Notice"}}
    \cup {[brace |-> TRUE, fields |-> [k \in {"level"} |-> l], logrus |-> ""] :
            l \in {JsonStr("panic"), JsonStr("Notice"), JsonNum(<<3>>)}}
    \cup {[brace |-> TRUE, fields |-> [k \in {"level"} |-> JsonStr("Notice")],
           logrus |-> "err"]}

\* the syslog levels and one value outside them
GelfLevels == 0..8

GelfMessages ==
  { [ShortMessage |-> m, Level |-> n, Timestamp |-> ts, Host |-> "web1", Extra |-> x] :
      m \in ShortMessages, n \in GelfLevels, ts \in {0, MaxNow}, x \in Extras }

\* a receiver has decoded one GELF message
InitGelf ==
  /\ InitIngestor(FALSE, {"p1"})
  /\ lk = NoLocks
  /\ udp = NoUdp /\ tcp = NoTcp
  /\ \E gelf \in GelfMessages :
       conv = [fn |-> "ProcessGELF", in |-> gelf, out |-> <<>>, done |-> FALSE]

\* ProcessGELF up to its call of ProcessLine
ProcessGELF(p) ==
  /\ conv.fn = "ProcessGELF" /\ ~conv.done
  /\ pc[p] = "idle"
  /\ LET logMap == GelfLogMap(conv.in, now)
     IN /\ conv' = [conv EXCEPT !.out = logMap, !.done = TRUE]
        /\ arg' = [arg EXCEPT ![p] = GelfLine(logMap)]
  /\ pc' = [pc EXCEPT ![p] = "pl_lock"]
  /\ last' = NoReturn
  /\ UNCHANGED <<lineCount, duplicateCount, batchNumber, batch, dedupCache,
                 partitionMap, mu, stopAutoFlush, autoFlushStopped, wr, sink, now,
                 failures, admissions, autoFlush, called, req, udp, tcp, lk>>

NextGelf ==
  \/ \E p \in Producers : ProcessGELF(p)
  \/ \E p \in Producers : PLBody(p)

SpecGelf == InitGelf /\ [][NextGelf]_vars

\* ---- one GELF envelope as it arrives ---------------------------------------------
\* the JSON object a peer sends: level is <<n>> when the key is there and <<>>
\* when the envelope has no level key
GelfEnvelopes ==
  { [short_message |-> m, level |-> l, timestamp |-> ts, host |-> "web1", extra |-> x] :
      m \in ShortMessages, l \in {<<>>} \cup {<<n>> : n \in GelfLevels},
      ts \in {0, MaxNow}, x \in Extras }

\* GELFMessage.UnmarshalJSON: a key the object lacks leaves the zero value of
\* its field; the keys that start with "_" go to Extra
UnmarshalJSON(data) ==
  [ShortMessage |-> data.short_message,
   Level |-> IF data.level = <<>> THEN 0 ELSE data.level[1],
   Timestamp |-> data.timestamp,
   Host |-> data.host,
   Extra |-> data.extra]

\* a receiver has read the bytes of one envelope
InitEnvelope ==
  /\ InitIngestor(FALSE, {"p1"})
  /\ lk = NoLocks
  /\ udp = NoUdp /\ tcp = NoTcp
  /\ \E data \in GelfEnvelopes :
       conv = [fn |-> "UnmarshalJSON", in |-> data, out |-> <<>>, done |-> FALSE]

\* the receiver decodes the envelope and calls ProcessGELF, which runs up to
\* its call of ProcessLine
ReceiveGELF(p) ==
  /\ conv.fn = "UnmarshalJSON" /\ ~conv.done
  /\ pc[p] = "idle"
  /\ LET gelfMsg == UnmarshalJSON(conv.in)
         logMap == GelfLogMap(gelfMsg, now)
     IN /\ conv' = [conv EXCEPT !.out = [gelf |-> gelfMsg, logMap |-> logMap],
                                !.done = TRUE]
        /\ arg' = [arg EXCEPT ![p] = GelfLine(logMap)]
  /\ pc' = [pc EXCEPT ![p] = "pl_lock"]
  /\ last' = NoReturn
  /\ UNCHANGED <<lineCount, duplicateCount, batchNumber, batch, dedupCache,
                 partitionMap, mu, stopAutoFlush, autoFlushStopped, wr, sink, now,
                 failures, admissions, autoFlush, called, req, udp, tcp, lk>>

NextEnvelope ==
  \/ \E p \in Producers : ReceiveGELF(p)
  \/ \E p \in Producers : PLBody(p)

SpecEnvelope == InitEnvelope /\ [][NextEnvelope]_vars

\* ---- a DedupCache on its own --------------------------------------------------------
\* the hashes offered to the cache
CacheHashes ==
  { computeContentHash(m, t) : m \in {l.msg : l \in Lines}, t \in 0..MaxNow }

InitCache ==
  /\ InitIngestor(FALSE, {})
  /\ lk = NoLocks
  /\ udp = NoUdp /\ tcp = NoTcp
  /\ conv = [fn |-> "Add", in |-> [dc |-> NewDedupCache(DedupWindow), hash |-> <<>>],
             out |-> NewDedupCache(DedupWindow), done |-> FALSE]

\* dc.Add(hash), whether or not the cache holds the hash
CacheAdd(hash) ==
  /\ conv.fn = "Add"
  /\ dedupCache' = Add(dedupCache, hash)
  /\ conv' = [conv EXCEPT !.in = [dc |-> dedupCache, hash |-> hash],
                          !.out = Add(dedupCache, hash), !.done = TRUE]
  /\ UNCHANGED <<lineCount, duplicateCount, batchNumber, batch, partitionMap, mu,
                 stopAutoFlush, autoFlushStopped, pc, arg, wr, sink, now, failures,
                 admissions, last, autoFlush, called, req, udp, tcp, lk>>

NextCache == \E hash \in CacheHashes : CacheAdd(hash)

SpecCache == InitCache /\ [][NextCache]_vars

\* ---- GELF UDP receiver with malformed datagrams -------------------------------------
\* json.Unmarshal accepts the bytes: byte 2 stands for the closing brace, which
\* a JSON object ends with
WellFormed(data) == data # <<>> /\ data[Len(data)] = 2

\* the goroutine of datagram id after json.Unmarshal: on an error it logs and
\* returns, otherwise it hands the message to ProcessGELF
UdpWorkerUnmarshal(id) ==
  /\ \E w \in udp.workers :
       /\ w.id = id
       /\ Len(w.data) = w.n
       /\ udp' = [udp EXCEPT !.workers = @ \ {w},
                             !.parsed = IF WellFormed(w.data)
                                          THEN @ \cup {[id |-> w.id, data |-> w.data]}
                                          ELSE @]
  /\ UNCHANGED <<ingestorVars, tcp, conv, lk>>

\* a burst of datagrams, malformed ones among them, arrives at the UDP receiver
InitDrop ==
  /\ InitIngestor(FALSE, {})
  /\ lk = NoLocks
  /\ tcp = NoTcp
  /\ conv = NoConv
  /\ \E dgrams \in SeqsUpTo(Datagrams, MaxBurst) : udp = UdpServer(dgrams)

NextDrop ==
  \/ UdpCopy
  \/ UdpSpawn
  \/ \E id \in 1..MaxBurst : UdpWorkerRead(id)
  \/ \E id \in 1..MaxBurst : UdpWorkerUnmarshal(id)

SpecDrop == InitDrop /\ [][NextDrop]_vars

\* ---- the goroutines as sequences of lock and channel operations ----------------------
KAdvance(p, j) == [lk EXCEPT !.at[p].i = j]

KRest == UNCHANGED <<ingestorVars, udp, tcp, conv>>

InitLocks ==
  /\ InitIngestor(TRUE, {})
  /\ udp = NoUdp /\ tcp = NoTcp /\ conv = NoConv
  /\ lk = NewLocks

\* a handler, /flush or the shutdown path calls a function of the ingestor
KCall(p, call, maxStops) ==
  /\ ~lk.crashed
  /\ lk.at[p] = Resting
  /\ call \in CallsOf(p)
  /\ call = "Stop" => lk.stops < maxStops
  /\ lk' = [lk EXCEPT !.at[p] = [call |-> call, i |-> 1],
                      !.stops = IF call = "Stop" THEN @ + 1 ELSE @]
  /\ KRest

\* Lock or RLock returns: sync.Mutex for mu, sync.RWMutex for dc and pt (a
\* goroutine waiting in Lock keeps new readers out)
KLock(p) ==
  /\ ~lk.crashed
  /\ LET op == NextOp(p)
         j == lk.at[p].i + 1
     IN \/ /\ op = <<"Lock", "mu">>
           /\ lk.mu = "free"
           /\ lk' = [KAdvance(p, j) EXCEPT !.mu = p]
        \/ /\ op[1] = "Lock" /\ op[2] \in {"dc", "pt"}
           /\ lk[op[2]] = Unlocked
           /\ lk' = [KAdvance(p, j) EXCEPT ![op[2]].w = p]
        \/ /\ op[1] = "RLock"
           /\ lk[op[2]].w = "free"
           /\ \A q \in Procs : NextOp(q) # <<"Lock", op[2]>>
           /\ lk' = [KAdvance(p, j) EXCEPT ![op[2]].r = @ \cup {p}]
  /\ KRest

\* Unlock or RUnlock
KUnlock(p) ==
  /\ ~lk.crashed
  /\ LET op == NextOp(p)
         j == lk.at[p].i + 1
     IN \/ /\ op = <<"Unlock", "mu">>
           /\ lk' = [KAdvance(p, j) EXCEPT !.mu = "free"]
        \/ /\ op[1] = "Unlock" /\ op[2] \in {"dc", "pt"}
           /\ lk' = [KAdvance(p, j) EXCEPT ![op[2]].w = "free"]
        \/ /\ op[1] = "RUnlock"
           /\ lk' = [KAdvance(p, j) EXCEPT ![op[2]].r = @ \ {p}]
  /\ KRest

\* a branch on the data skips operations
KJump(p) ==
  /\ ~lk.crashed
  /\ \E j \in 1..Len(WorkerOps) :
       /\ <<lk.at[p].call, lk.at[p].i, j>> \in Jumps
       /\ lk' = KAdvance(p, j)
  /\ KRest

\* the writer returns, with or without an error
KWrite(p) ==
  /\ ~lk.crashed
  /\ NextOp(p)[1] = "write"
  /\ lk' = KAdvance(p, lk.at[p].i + 1)
  /\ KRest

\* close(ch): closing a closed channel panics and the process dies
KClose(p) ==
  /\ ~lk.crashed
  /\ NextOp(p)[1] = "close"
  /\ LET ch == NextOp(p)[2]
     IN lk' = IF lk[ch] THEN [lk EXCEPT !.crashed = TRUE]
              ELSE [KAdvance(p, lk.at[p].i + 1) EXCEPT ![ch] = TRUE]
  /\ KRest

\* <-ch returns once ch is closed
KRecv(p) ==
  /\ ~lk.crashed
  /\ NextOp(p)[1] = "recv"
  /\ lk[NextOp(p)[2]]
  /\ lk' = KAdvance(p, lk.at[p].i + 1)
  /\ KRest

\* autoFlushWorker's select takes the ticker case
KSelectTick ==
  /\ ~lk.crashed
  /\ NextOp(Worker)[1] = "select"
  /\ lk' = KAdvance(Worker, 2)
  /\ KRest

\* autoFlushWorker's select takes the stop case: return, the deferred close runs
KSelectStop ==
  /\ ~lk.crashed
  /\ NextOp(Worker)[1] = "select"
  /\ lk.stopAutoFlush
  /\ lk' = KAdvance(Worker, Len(WorkerOps))
  /\ KRest

\* the end of the body of the worker's for loop
KLoop ==
  /\ ~lk.crashed
  /\ NextOp(Worker)[1] = "loop"
  /\ lk' = KAdvance(Worker, 1)
  /\ KRest

\* the function returns to its caller; the worker goroutine ends
KReturn(p) ==
  /\ ~lk.crashed
  /\ lk.at[p].call \notin {"idle", "exited"}
  /\ NextOp(p)[1] = "return"
  /\ lk' = [lk EXCEPT !.at[p] = IF p = Worker THEN [call |-> "exited", i |-> 0]
                                 ELSE Resting]
  /\ KRest

\* handlers, /flush, the worker and Stop; Stop is called at most maxStops times
NextLocksWith(maxStops) ==
  \/ \E p \in Procs, call \in {"ProcessLine", "Flush", "GetStats", "Size", "Stop"} :
       KCall(p, call, maxStops)
  \/ \E p \in Procs : KLock(p)
  \/ \E p \in Procs : KUnlock(p)
  \/ \E p \in Procs : KJump(p)
  \/ \E p \in Procs : KWrite(p)
  \/ \E p \in Procs : KClose(p)
  \/ \E p \in Procs : KRecv(p)
  \/ KSelectTick
  \/ KSelectStop
  \/ KLoop
  \/ \E p \in Procs : KReturn(p)

\* Stop is called once, as main does
NextLocks == NextLocksWith(1)

\* Stop may be called twice
NextStops == NextLocksWith(2)

\* sync.Mutex and sync.RWMutex hand the lock to a goroutine that keeps waiting;
\* select takes a case that stays ready; a goroutine that can take a step
\* takes it and a sink write returns. No call and no tick is forced.
LockFairness ==
  /\ \A p \in Procs : SF_vars(KLock(p))
  /\ \A p \in Procs : WF_vars(KUnlock(p)) /\ WF_vars(KWrite(p)) /\ WF_vars(KClose(p))
                       /\ WF_vars(KRecv(p)) /\ WF_vars(KReturn(p))
  /\ SF_vars(KSelectStop)
  /\ WF_vars(KLoop)

SpecLocks == InitLocks /\ [][NextLocks]_vars /\ LockFairness

SpecStops == InitLocks /\ [][NextStops]_vars

\* auto-flush off, receivers and /flush, every sink write succeeds
Next ==
  \/ \E p \in Producers, line \in Lines : PLCall(p, line, MaxLines)
  \/ \E p \in Producers : PLBody(p)
  \/ \E p \in Flushers : FlushCall(p)
  \/ \E p \in Procs : FlushBody(p)
  \/ \E p \in Procs : WritePut(p)
  \/ \E p \in Procs : WriteDone(p)
  \/ Tick

\* auto-flush off, receivers only (no /flush, no Stop), every sink write succeeds
NextSize ==
  \/ \E p \in Producers, line \in Lines : PLCall(p, line, MaxLines)
  \/ \E p \in Producers : PLBody(p)
  \/ \E p \in Procs : WritePut(p)
  \/ \E p \in Procs : WriteDone(p)
  \/ Tick

\* auto-flush off, a receiver and /flush, sink writes may fail
NextFail ==
  \/ \E p \in Producers, line \in Lines : PLCall(p, line, MaxLinesFail)
  \/ \E p \in Producers : PLBody(p)
  \/ \E p \in Flushers : FlushCall(p)
  \/ \E p \in Procs : FlushBody(p)
  \/ \E p \in Procs : WritePut(p)
  \/ \E p \in Procs : WriteFail(p)
  \/ \E p \in Procs : WriteDone(p)
  \/ Tick

\* auto-flush on: a receiver and the worker (no /flush, no Stop), sink writes may fail
NextLive ==
  \/ \E p \in Producers, line \in Lines : PLCall(p, line, MaxLinesAuto)
  \/ \E p \in Producers : PLBody(p)
  \/ FlushBody(Worker)
  \/ \E p \in Procs : WritePut(p)
  \/ \E p \in Procs : WriteFail(p)
  \/ \E p \in Procs : WriteDone(p)
  \/ WorkerTick
  \/ WorkerCheck
  \/ Tick

\* auto-flush on: a receiver, the worker and Stop (no /flush), sink writes may fail
NextStop ==
  \/ \E p \in Producers, line \in Lines : PLCall(p, line, MaxLinesAuto)
  \/ \E p \in Producers : PLBody(p)
  \/ \E p \in Procs : FlushBody(p)
  \/ \E p \in Procs : WritePut(p)
  \/ \E p \in Procs : WriteFail(p)
  \/ \E p \in Procs : WriteDone(p)
  \/ WorkerTick
  \/ WorkerCheck
  \/ WorkerStop
  \/ StopClose
  \/ StopWait
  \/ Tick

\* auto-flush on: a receiver, /flush, the worker and Stop, sink writes may fail
NextAuto ==
  \/ \E p \in Producers, line \in Lines : PLCall(p, line, MaxLinesAuto)
  \/ \E p \in Producers : PLBody(p)
  \/ \E p \in Flushers : FlushCall(p)
  \/ \E p \in Procs : FlushBody(p)
  \/ \E p \in Procs : WritePut(p)
  \/ \E p \in Procs : WriteFail(p)
  \/ \E p \in Procs : WriteDone(p)
  \/ WorkerTick
  \/ WorkerCheck
  \/ WorkerStop
  \/ StopClose
  \/ StopWait
  \/ Tick

\* auto-flush on: a receiver, /flush and the worker (no Stop), sink writes may fail
NextRace ==
  \/ \E p \in Producers, line \in Lines : PLCall(p, line, MaxLinesAuto)
  \/ \E p \in Producers : PLBody(p)
  \/ \E p \in Flushers : FlushCall(p)
  \/ \E p \in Procs : FlushBody(p)
  \/ \E p \in Procs : WritePut(p)
  \/ \E p \in Procs : WriteFail(p)
  \/ \E p \in Procs : WriteDone(p)
  \/ WorkerTick
  \/ WorkerCheck
  \/ Tick

Spec == Init /\ [][Next]_vars

SpecSize == Init /\ [][NextSize]_vars

SpecUdp == InitUdp /\ [][NextUdp]_vars

SpecTcp == InitTcp /\ [][NextTcp]_vars

SpecHttp == Init /\ [][NextHttp]_vars

SpecFail == InitOne /\ [][NextFail]_vars

SpecAuto == InitAuto /\ [][NextAuto]_vars

SpecStop == InitAuto /\ [][NextStop]_vars

SpecRace == InitAuto /\ [][NextRace]_vars

\* the ticker keeps firing, a goroutine that can take a step takes it, and a
\* sink write in progress completes; failures are not forced and stay within MaxFail
Fairness ==
  /\ WF_vars(WorkerTick)
  /\ WF_vars(WorkerCheck)
  /\ WF_vars(FlushBody(Worker))
  /\ \A p \in Producers : WF_vars(PLBody(p))
  /\ \A p \in Procs : WF_vars(WritePut(p)) /\ WF_vars(WriteDone(p))

SpecLive == InitAuto /\ [][NextLive]_vars /\ Fairness

\* ---- properties ------------------------------------------------------------
Admitted == SelectSeq(admissions, LAMBDA a : a.admitted)

\* unique (record-creating) submissions strictly between the i-th and the j-th
UniqueBetween(i, j) == Cardinality({k \in (i + 1)..(j - 1) : admissions[k].admitted})

\* C1: the i-th line handled by ProcessLine gets line number i whether it is
\* admitted or swallowed by dedup, so the line numbers of the admitted records
\* increase strictly in admission order and the first admitted record has 1.
C1_LineNumbersIncrease ==
  /\ \A i \in DOMAIN admissions : admissions[i].ln = i
  /\ \A i \in 1..(Len(Admitted) - 1) : Admitted[i].ln < Admitted[i + 1].ln
  /\ (Admitted # <<>> => Admitted[1].ln = 1)

\* records admitted before and after a swallowed duplicate and after a rollover
C1_Witness ==
  /\ batchNumber >= 1
  /\ \E i, j \in DOMAIN admissions :
       /\ i < j
       /\ ~admissions[i].admitted
       /\ admissions[j].admitted
       /\ admissions[j].ln \in {e.LineNumber : e \in {batch.Entries[k] : k \in DOMAIN batch.Entries}}

\* C2 as stated: a resubmission with at most N unique submissions in between
\* creates no record (and every swallowed line counts once in duplicateCount).
C2_Original ==
  /\ \A i, j \in DOMAIN admissions :
       (i < j /\ admissions[i].hash = admissions[j].hash
          /\ UniqueBetween(i, j) <= DedupWindow) => ~admissions[j].admitted
  /\ duplicateCount = Len(admissions) - Len(Admitted)

\* C2 amended: a (message, timestamp) whose submission created a record and that
\* is submitted again with at most N-1 unique submissions in between creates no
\* record the second time, and duplicateCount counts exactly the swallowed lines.
C2_DuplicateWithinWindow ==
  /\ \A i, j \in DOMAIN admissions :
       (i < j /\ admissions[i].hash = admissions[j].hash /\ admissions[i].admitted
          /\ UniqueBetween(i, j) <= DedupWindow - 1) => ~admissions[j].admitted
  /\ duplicateCount = Len(admissions) - Len(Admitted)

\* a resubmission swallowed with exactly N-1 unique submissions in between
C2_Witness ==
  \E i, j \in DOMAIN admissions :
    /\ i < j
    /\ admissions[i].hash = admissions[j].hash
    /\ admissions[i].admitted
    /\ UniqueBetween(i, j) = DedupWindow - 1
    /\ ~admissions[j].admitted
    /\ duplicateCount >= 1

\* position in admissions of the insertion that made h a member of the window
InsertedAt(h) ==
  CHOOSE k \in DOMAIN admissions :
    /\ admissions[k].hash = h /\ admissions[k].admitted
    /\ \A m \in DOMAIN admissions :
         (admissions[m].hash = h /\ admissions[m].admitted) => m <= k

\* C3: when a hash that is not a member is added to a full window, exactly the
\* member with the earliest insertion is evicted, every other member stays and
\* the new hash becomes a member.
C3_FifoEviction ==
  [][(dedupCache' # dedupCache /\ Cardinality(dedupCache.hashes) = DedupWindow) =>
       LET oldest == CHOOSE h \in dedupCache.hashes :
                       \A g \in dedupCache.hashes : InsertedAt(h) <= InsertedAt(g)
           new == admissions'[Len(admissions')].hash
       IN /\ new \notin dedupCache.hashes
          /\ dedupCache'.hashes = (dedupCache.hashes \ {oldest}) \cup {new}
          /\ oldest \notin dedupCache'.hashes]_vars

\* more than N unique hashes were added and the oldest is no longer a member
C3_Witness ==
  /\ Len(Admitted) > DedupWindow
  /\ Admitted[1].hash \notin dedupCache.hashes
  /\ \A i \in (Len(Admitted) - DedupWindow + 1)..Len(Admitted) :
       Admitted[i].hash \in dedupCache.hashes

\* C4: the dedup window never holds more than DedupWindow hashes.
C4_WindowBounded ==
  /\ Cardinality(dedupCache.hashes) <= DedupWindow
  /\ Len(dedupCache.order) <= DedupWindow

\* the window is full after more unique hashes than its capacity were added
C4_Witness ==
  /\ Size(dedupCache) = DedupWindow
  /\ Len(Admitted) > DedupWindow

\* C5 as stated: after a Flush() that returns success the buffer is empty and
\* batchNumber is one greater than when Flush took the mutex.
C5_Original ==
  (last.op = "Flush" /\ last.res = "ok") =>
     (Len(batch.Entries) = 0 /\ batchNumber = last.bn0 + 1)

\* C5 amended: after a Flush() that returns success the buffer is empty;
\* batchNumber is one greater than before if the buffer held records and is
\* unchanged if the buffer was empty.
C5_FlushEmptiesBuffer ==
  (last.op = "Flush" /\ last.res = "ok") =>
     /\ Len(batch.Entries) = 0
     /\ batchNumber = last.bn0 + (IF last.len0 > 0 THEN 1 ELSE 0)
     /\ batch.BatchNumber = batchNumber

\* a Flush() of a non-empty buffer has just returned success
C5_Witness == last.op = "Flush" /\ last.res = "ok" /\ last.len0 > 0 /\ last.bn0 >= 1

\* C6: a Flush() that finds the buffer empty returns success in the same step,
\* writes nothing and changes none of batch, batchNumber, lineCount,
\* duplicateCount, dedup window, partition tracker.
C6_EmptyFlushNoOp ==
  [][\A p \in Procs :
       (pc[p] = "fl_lock" /\ pc'[p] # "fl_lock" /\ Len(batch.Entries) = 0) =>
          /\ last' = Returned(p, "ok", 0, batchNumber)
          /\ mu' = mu
          /\ UNCHANGED <<batch, batchNumber, lineCount, duplicateCount, dedupCache,
                         partitionMap, sink, failures>>]_vars

\* a Flush() of an empty buffer has just returned, after earlier admissions and writes
C6_Witness ==
  /\ last.op = "Flush" /\ last.res = "ok" /\ last.len0 = 0
  /\ lineCount > 0 /\ sink # <<>>

C10_OneWriter == Cardinality({p \in Procs : pc[p] = "writing"}) <= 1

\* a size-triggered write is in progress while /flush and the worker wait for the mutex
C10_Witness ==
  /\ \E p \in Producers : pc[p] = "writing"
  /\ pc["f"] = "fl_lock"
  /\ pc[Worker] = "fl_lock"

\* ---- flush coverage ----------------------------------------------------------
SinkLines == UNION { { sink[i].lns[k] : k \in DOMAIN sink[i].lns } : i \in DOMAIN sink }

BatchLines == { batch.Entries[i].LineNumber : i \in DOMAIN batch.Entries }

AdmittedLines == { Admitted[i].ln : i \in DOMAIN Admitted }

\* C11: when a Flush() call (made by /flush) returns success, every record admitted by a
\* ProcessLine call that had returned before the Flush() was invoked is in the
\* sink, and every admitted record (one of a racing ProcessLine included) is in
\* the sink or in the buffer.
C11_FlushCoversReturned ==
  [][\A p \in Flushers :
       (pc[p] \in {"fl_lock", "writing"} /\ last'.proc = p /\ last'.res = "ok")
         => /\ called[p] \subseteq SinkLines'
            /\ AdmittedLines' \subseteq SinkLines' \cup BatchLines']_vars

\* /flush has returned success after writing records while a ProcessLine call
\* that raced with it waits for the mutex
C11_Witness ==
  /\ last.proc = "f" /\ last.res = "ok" /\ last.len0 > 0
  /\ \E p \in Producers : pc[p] = "pl_lock"
  /\ lineCount > 0

\* ---- size-triggered flushes ----------------------------------------------------
\* line numbers of the records put by the flush of batch k
FlushLines(k) ==
  UNION { { sink[i].lns[j] : j \in DOMAIN sink[i].lns } :
            i \in { i2 \in DOMAIN sink : sink[i2].bn = k } }

\* line numbers of the admitted records number from..to, in admission order
AdmittedRange(from, to) == { Admitted[i].ln : i \in from..to }

\* C12: with a sink that always succeeds and no explicit or periodic flush, n
\* admitted records and batch size B give exactly n \div B flushes; flush k holds
\* exactly the B records number k*B+1..(k+1)*B, the buffer holds the other
\* n % B records, and the first record after a full batch has a line number
\* above every flushed one.
C12_SizeFlushes ==
  LET n == Len(Admitted)
      inWriter == \E p \in Producers : pc[p] = "writing"
      done == IF inWriter THEN (n \div BatchSize) - 1 ELSE n \div BatchSize
  IN /\ batchNumber = done
     /\ inWriter => n % BatchSize = 0
     /\ Len(batch.Entries) = n - done * BatchSize
     /\ BatchLines = AdmittedRange(done * BatchSize + 1, n)
     /\ \A k \in 0..(done - 1) :
          /\ FlushLines(k) = AdmittedRange(k * BatchSize + 1, (k + 1) * BatchSize)
          /\ Cardinality(FlushLines(k)) = BatchSize
     /\ \A x \in BatchLines, y \in UNION { FlushLines(k) : k \in 0..(done - 1) } : x > y

\* one full batch was flushed, a duplicate was dropped, and the record after
\* the full batch waits alone in the buffer
C12_Witness ==
  /\ batchNumber = 1
  /\ Len(batch.Entries) = 1
  /\ duplicateCount > 0
  /\ \A p \in Producers : pc[p] = "idle"

\* ---- periodic flush ---------------------------------------------------------------
\* C13: with auto-flush on, a ticker that keeps firing and sink writes that
\* eventually succeed, every admitted record eventually reaches the sink without
\* any explicit Flush(), and after a failed periodic flush the worker comes
\* back to its next tick.
C13_AutoFlushDelivers ==
  /\ \A n \in 1..MaxLinesAuto : (n \in AdmittedLines) ~> (n \in SinkLines)
  /\ (last.proc = Worker /\ last.res = "err") ~> (pc[Worker] = "w_check")

\* a periodic flush has written a batch below batch size after an earlier write failed
C13_Witness ==
  /\ last.proc = Worker /\ last.res = "ok"
  /\ last.len0 > 0 /\ last.len0 < BatchSize
  /\ failures > 0

\* ---- Stop -------------------------------------------------------------------------
\* C14: Stop() closes the stop channel first; its final Flush() and its return
\* come only after the worker has terminated; the worker terminates only from
\* its select (a periodic flush in progress completes first) and never runs again.
C14_StopWaitsForWorker ==
  [][/\ (pc[Stopper] = "idle" /\ pc'[Stopper] # "idle") => stopAutoFlush'
     /\ pc'[Stopper] \in {"fl_lock", "writing", "s_done"} => pc'[Worker] = "w_done"
     /\ (pc[Worker] # "w_done" /\ pc'[Worker] = "w_done")
          => (stopAutoFlush /\ pc[Worker] = "w_select" /\ mu # Worker)
     /\ pc[Worker] = "w_done" => pc'[Worker] = "w_done"]_vars

\* Stop has returned from a final Flush that wrote records, the worker is gone
C14_Witness ==
  /\ last.proc = Stopper /\ last.res = "ok" /\ last.len0 > 0
  /\ pc[Stopper] = "s_done"
  /\ pc[Worker] = "w_done"
  /\ failures > 0

\* ---- partial writes ---------------------------------------------------------------
\* puts of batch bn made during write attempt number att
PutsOf(bn, att) == { i \in DOMAIN sink : sink[i].bn = bn /\ sink[i].att = att }

\* C15: when the write of a group fails the writer returns the error at once:
\* it writes no further group in that attempt, and the sink keeps every put it
\* has accepted (the sink only grows, and every new put belongs to the
\* attempt in progress).
C15_FirstFailureAborts ==
  [][/\ Len(sink') >= Len(sink)
     /\ SubSeq(sink', 1, Len(sink)) = sink
     /\ \A i \in DOMAIN sink' \ DOMAIN sink : sink'[i].att = failures'
     /\ \A p \in Procs :
          (pc[p] = "writing" /\ failures' # failures /\ last'.proc = p)
            => /\ sink' = sink
               /\ last'.res = "err"
               /\ pc'[p] # "writing"
               /\ wr'[p].groups = {}]_vars

\* a write of a batch with several partition groups has failed after at least
\* one group was put and before the last one
C15_Witness ==
  /\ last.res = "err"
  /\ Cardinality(PartitionGroups(batch)) > 1
  /\ Cardinality(PutsOf(batch.BatchNumber, failures - 1)) \in
       1..(Cardinality(PartitionGroups(batch)) - 1)

\* ---- GELF UDP ---------------------------------------------------------------------
\* C16: every datagram that arrived is handed to ProcessGELF once its goroutine
\* is done, and each goroutine has parsed exactly the bytes of its own datagram.
C16_OwnBytes ==
  /\ \A r \in udp.parsed : r.data = udp.dgrams[r.id]
  /\ (udp.pos = Len(udp.dgrams) /\ udp.workers = {})
       => { r.id : r \in udp.parsed } = DOMAIN udp.dgrams

\* ---- GELF TCP framing -------------------------------------------------------------
\* the bytes between the zero byte at position z of s and the zero byte before it
SpanBefore(s, z) ==
  LET before == { i \in 1..(z - 1) : s[i] = 0 }
      from == IF before = {} THEN 1
              ELSE 1 + CHOOSE i \in before : \A j \in before : j <= i
  IN SubSeq(s, from, z - 1)

RECURSIVE Spans(_, _)
\* the non-empty spans that precede each zero byte among the first k bytes
\* of s, in stream order
Spans(s, k) ==
  IF k = 0 THEN <<>>
  ELSE Spans(s, k - 1) \o
         (IF s[k] = 0 /\ SpanBefore(s, k) # <<>> THEN <<SpanBefore(s, k)>> ELSE <<>>)

\* C17: whatever the split of the byte stream into reads, the messages a TCP
\* connection has submitted are exactly the non-empty spans preceding each
\* zero byte of the bytes read so far, in stream order, each once.
C17_FramingIndependentOfReads == tcp.out = Spans(tcp.stream, tcp.pos)

\* the whole stream was read and a submitted message is longer than one read
\* can return: its bytes and its terminator came in different reads
C17_Witness ==
  /\ tcp.pos = Len(tcp.stream)
  /\ \E i \in DOMAIN tcp.out : Len(tcp.out[i]) >= MaxRead
  /\ Len(tcp.out) > 0

\* ---- request handlers -------------------------------------------------------------
\* C18: two lines of one request body or one TCP connection that are both
\* admitted as records get line numbers in the order they were sent, whatever
\* the other receiver does.
C18_ProducerOrder ==
  \A i, j \in DOMAIN admissions :
    (/\ admissions[i].admitted /\ admissions[j].admitted
     /\ admissions[i].src[1] # "none"
     /\ admissions[i].src[1] = admissions[j].src[1]
     /\ admissions[i].src[2] < admissions[j].src[2])
      => admissions[i].ln < admissions[j].ln

\* two records of one producer with a record of the other producer admitted
\* between them
C18_Witness ==
  \E i, k, j \in DOMAIN admissions :
    /\ i < k /\ k < j
    /\ admissions[i].admitted /\ admissions[k].admitted /\ admissions[j].admitted
    /\ admissions[i].src[1] = admissions[j].src[1]
    /\ admissions[k].src[1] # admissions[i].src[1]
    /\ admissions[i].src[2] < admissions[j].src[2]

\* C19: an admission failure while serving /ingest or /gelf is answered with
\* HTTP 500; on a TCP connection it is only logged and the loop goes on.
C19_AdmissionFailureAnswers500 ==
  \A p \in Producers :
    /\ (req[p].kind \in {"ingest", "gelf"} /\ req[p].errs > 0) => req[p].status = "500"
    /\ (req[p].kind = "tcp" /\ req[p].errs > 0) => req[p].status \in {"open", "closed"}

\* C20: when ProcessLine fails on line i of an /ingest body the response is
\* 500; the lines before i stay handled (no admission, counter or record is
\* taken back) and no line after i is ever passed to ProcessLine.
C20_IngestStopsAtFailure ==
  [][\A p \in Producers :
       /\ (req[p].kind = "ingest" /\ req'[p].errs # req[p].errs)
            => /\ req'[p].status = "500"
               /\ req'[p].rest = req[p].rest
               /\ req'[p].n = req[p].idx - 1
       /\ req[p].status = "500" => (req'[p] = req[p] /\ pc'[p] = "idle")
       /\ SubSeq(admissions', 1, Len(admissions)) = admissions
       /\ lineCount' >= lineCount /\ duplicateCount' >= duplicateCount
       /\ AdmittedLines' \subseteq SinkLines' \cup BatchLines']_vars

\* /ingest has answered 500 at the second line or later of a body that has
\* more lines; the earlier lines of the body are among the admissions
C20_Witness ==
  \E p \in Producers :
    /\ req[p].kind = "ingest" /\ req[p].status = "500"
    /\ req[p].idx >= 2 /\ req[p].rest # <<>>
    /\ \A k \in 1..req[p].idx : \E i \in DOMAIN admissions : admissions[i].src = <<p, k>>

\* ---- time range of the batch ------------------------------------------------------
BatchTimestamps == { batch.Entries[i].Timestamp : i \in DOMAIN batch.Entries }

\* C21: every record of the current batch has its timestamp between the
\* batch's start_time and end_time.
C21_RecordsWithinRange ==
  \A t \in BatchTimestamps : batch.StartTime <= t /\ t <= batch.EndTime

\* a batch created by a rollover holds a record stamped before and a record
\* stamped after the moment the batch was created
C21_Witness ==
  /\ batch.BatchNumber > 0
  /\ \E i, j \in DOMAIN batch.Entries :
       /\ batch.Entries[i].Timestamp = 0
       /\ batch.Entries[j].Timestamp = MaxNow
  /\ batch.StartTime = 0 /\ batch.EndTime = MaxNow

\* C22: the start_time of a non-empty batch is the minimum and its end_time
\* the maximum of the timestamps of its records.
C22_RangeIsMinMax ==
  BatchTimestamps # {} =>
    /\ \A t \in BatchTimestamps : batch.StartTime <= t
    /\ \A t \in BatchTimestamps : t <= batch.EndTime
    /\ batch.StartTime \in BatchTimestamps
    /\ batch.EndTime \in BatchTimestamps

\* ---- blobs of one flush -----------------------------------------------------------
\* the partition path a record belongs to: its date, then its level unless the
\* level is unknown or empty
ExpectedPath(e) ==
  <<e.Timestamp \div 2, IF e.Level = "unknown" \/ e.Level = "" THEN "" ELSE e.Level>>

\* C23: a flush that succeeds has written exactly one blob per distinct
\* partition key of the batch; every record of the batch is in exactly one of
\* these blobs, the one under the record's own partition path; the blobs hold
\* nothing else and no two of them share an object key.
C23_OneBlobPerPartition ==
  [][\A p \in Procs :
       (pc[p] = "writing" /\ pc'[p] # "writing" /\ last'.res = "ok")
         => LET puts == PutsOf(batch.BatchNumber, failures)
                es == { batch.Entries[i] : i \in DOMAIN batch.Entries }
            IN /\ Cardinality(puts) = Cardinality({ ExpectedPath(e) : e \in es })
               /\ \A e \in es :
                    Cardinality({ i \in puts :
                      \E k \in DOMAIN sink[i].lns : sink[i].lns[k] = e.LineNumber }) = 1
               /\ \A e \in es : \A i \in puts :
                    (\E k \in DOMAIN sink[i].lns : sink[i].lns[k] = e.LineNumber)
                      => sink[i].key[1] = ExpectedPath(e)
               /\ \A i \in puts : \A k, k2 \in DOMAIN sink[i].lns :
                    /\ \E e \in es : e.LineNumber = sink[i].lns[k]
                    /\ (k # k2 => sink[i].lns[k] # sink[i].lns[k2])
               /\ \A i, j \in puts : i # j => sink[i].key # sink[j].key]_vars

\* a flush has written a batch whose records have two partition keys, one of
\* them without a level part, as two blobs
C23_Witness ==
  /\ last.res = "ok" /\ last.len0 > 0
  /\ \E i, j \in DOMAIN sink :
       /\ sink[i].bn = sink[j].bn
       /\ sink[i].key[1] # sink[j].key[1]
       /\ sink[i].key[1][2] = "" /\ sink[j].key[1][2] # ""

\* ---- duplicate lines --------------------------------------------------------------
\* the hash ProcessLine computes for the line receiver p has passed
HashOfArg(p) ==
  computeContentHash(arg[p].msg,
                     IF logTimestamps THEN parseTimestamp(arg[p], now) ELSE now)

\* C30: with dedup enabled, a ProcessLine call that finds the line's hash in
\* the window returns success and changes only the line counter and the
\* duplicate counter, each by one; batch, batch number, dedup window, partition
\* tracker and sink are unchanged. The duplicate counter changes in no other way.
C30_DuplicateFrame ==
  [][/\ \A p \in Producers :
          (pc[p] = "pl_lock" /\ pc'[p] # "pl_lock" /\ deduplicate
             /\ HashOfArg(p) \in dedupCache.hashes)
            => /\ last' = Returned(p, "ok", Len(batch.Entries), batchNumber)
               /\ lineCount' = lineCount + 1
               /\ duplicateCount' = duplicateCount + 1
               /\ UNCHANGED <<batch, batchNumber, dedupCache, partitionMap, sink>>
     /\ duplicateCount' # duplicateCount
          => \E p \in Producers :
               /\ pc[p] = "pl_lock" /\ pc'[p] # "pl_lock"
               /\ HashOfArg(p) \in dedupCache.hashes]_vars

\* ProcessLine has just returned from dropping a duplicate while the batch
\* holds a record and an earlier batch is in the sink
C30_Witness ==
  /\ last.op = "ProcessLine" /\ last.res = "ok"
  /\ admissions # <<>> /\ ~admissions[Len(admissions)].admitted
  /\ Len(batch.Entries) > 0
  /\ batchNumber > 0


\* ---- TCP accumulation buffer --------------------------------------------------------
\* C29: the accumulation buffer of a TCP connection stays below a fixed cap
\* however many bytes the peer sends without a zero byte. A cap smaller than
\* the longest stream of the model would keep the buffer from ever holding
\* MaxStream bytes.
C29_BufferCapped == Len(tcp.buffer) < MaxStream


\* ---- severity extraction ------------------------------------------------------------
\* the lines extractLevel has been applied to whose first configured level
\* field that is present is f
LevelCallOn(f) ==
  /\ conv.fn = "extractLevel" /\ conv.done /\ conv.in.brace
  /\ \E i \in DOMAIN levelFields :
       /\ levelFields[i] = f
       /\ f \in DOMAIN conv.in.fields
       /\ \A j \in 1..(i - 1) : levelFields[j] \notin DOMAIN conv.in.fields

NamedLevels ==
  {"error", "warn", "info", "debug", "warning", "err", "trace", "fatal",
   "critical", "panic"}

NormalizedLevel(w) ==
  CASE w = "warning" -> "warn"
    [] w = "err" -> "error"
    [] w = "trace" -> "debug"
    [] w \in {"fatal", "critical", "panic"} -> "error"
    [] OTHER -> w

\* C24: a JSON line whose configured level field holds one of error, warn,
\* info, debug, warning, err, trace, fatal, critical, panic gets the
\* normalized token as its level.
C24_NamedLevelNormalized ==
  \A f \in {levelFields[i] : i \in DOMAIN levelFields} :
    (LevelCallOn(f) /\ conv.in.fields[f].kind = "str"
       /\ conv.in.fields[f].str \in NamedLevels)
      => conv.out = NormalizedLevel(conv.in.fields[f].str)

RECURSIVE NumeralValue(_)
\* the integer a decimal numeral denotes
NumeralValue(d) ==
  IF d = <<>> THEN 0 ELSE 10 * NumeralValue(SubSeq(d, 1, Len(d) - 1)) + d[Len(d)]

LevelBand(n) ==
  IF n <= 4 THEN "debug" ELSE IF n <= 8 THEN "info" ELSE IF n <= 12 THEN "warn" ELSE "error"

\* C25: a JSON line whose level field holds an integer n >= 1, of any number of
\* digits, gets debug for 1..4, info for 5..8, warn for 9..12 and error for
\* n >= 13, n taken as a number.
C25_NumericLevelByValue ==
  \A f \in {levelFields[i] : i \in DOMAIN levelFields} :
    (LevelCallOn(f) /\ conv.in.fields[f].kind = "num"
       /\ NumeralValue(conv.in.fields[f].num) >= 1)
      => conv.out = LevelBand(NumeralValue(conv.in.fields[f].num))


\* ---- GELF normalisation -----------------------------------------------------------
\* ProcessGELF has built the record of the envelope conv.in
GelfDone == conv.fn = "ProcessGELF" /\ conv.done

\* the record ProcessLine made of the GELF message
GelfRecords == { batch.Entries[i] : i \in DOMAIN batch.Entries }

\* C26: whatever extras an envelope carries, the built-in keys of the
\* serialized record keep the built-in values, and the record's level and
\* timestamp are the built-in ones.
C26_BuiltInsWin ==
  GelfDone =>
    LET builtIns == GelfBuiltIns(conv.in, now)
    IN /\ \A k \in DOMAIN builtIns : conv.out[k] = builtIns[k]
       /\ \A r \in GelfRecords :
            /\ r.Level = builtIns["level"].str
            /\ r.Timestamp = builtIns["timestamp"].num[1]

\* C27: an envelope with the extra _foo = bar is serialized with the top-level
\* key foo mapped to bar and without a key _foo.
C27_ExtraStripped ==
  (GelfDone /\ "_foo" \in DOMAIN conv.in.Extra)
    => /\ "foo" \in DOMAIN conv.out
       /\ conv.out["foo"] = conv.in.Extra["_foo"]
       /\ "_foo" \notin DOMAIN conv.out

\* C27 amended: ... without a key _foo unless the envelope also has an extra __foo.
C27_ExtraStrippedOnce ==
  (GelfDone /\ "_foo" \in DOMAIN conv.in.Extra)
    => /\ "foo" \in DOMAIN conv.out
       /\ conv.out["foo"] = conv.in.Extra["_foo"]
       /\ "_foo" \in DOMAIN conv.out => "__foo" \in DOMAIN conv.in.Extra

C27_Witness ==
  /\ GelfDone
  /\ DOMAIN conv.in.Extra = {"_foo", "_level"}
  /\ conv.in.Extra["_foo"] = JsonStr("bar")
  /\ conv.out["foo"] = JsonStr("bar")
  /\ GelfRecords # {}

\* C28: the record's level is the one the short_message yields; when it
\* yields none, it follows the GELF integer: 0..3 error, 4 warn, 5 and 6 info,
\* 7 debug, anything else info.
C28_LevelFromMessageOrInteger ==
  GelfDone =>
    \A r \in GelfRecords :
      r.Level =
        IF parseLevelFromMessage(conv.in.ShortMessage) # ""
          THEN parseLevelFromMessage(conv.in.ShortMessage)
          ELSE CASE conv.in.Level \in 0..3 -> "error"
                 [] conv.in.Level = 4 -> "warn"
                 [] conv.in.Level \in {5, 6} -> "info"
                 [] conv.in.Level = 7 -> "debug"
                 [] OTHER -> "info"


\* ---- DedupCache.Add ----------------------------------------------------------------
\* C31: adding a hash the cache already holds leaves the cache as it was:
\* same members, same size, same eviction order (the hash is not refreshed).
C31_AddIdempotent ==
  (conv.fn = "Add" /\ conv.done /\ conv.in.hash \in conv.in.dc.hashes)
    => /\ conv.out.hashes = conv.in.dc.hashes
       /\ Size(conv.out) = Size(conv.in.dc)
       /\ conv.out.order = conv.in.dc.order
       /\ dedupCache = conv.in.dc

\* the oldest member of a full window has been added again
C31_Witness ==
  /\ conv.fn = "Add" /\ conv.done
  /\ Len(conv.in.dc.order) = DedupWindow
  /\ conv.in.dc.order[1] = conv.in.hash


\* ---- malformed GELF messages ----------------------------------------------------------
\* C32: a message that fails GELF parsing is dropped without advancing the
\* line counter and without ending the receiver; here for UDP: once the
\* goroutines are done, every well-formed datagram that arrived after a
\* malformed one has been parsed as it was sent and handed to ProcessGELF.
C32_LaterDatagramsParsed ==
  /\ lineCount = 0
  /\ (udp.pos = Len(udp.dgrams) /\ udp.workers = {})
       => \A j \in DOMAIN udp.dgrams : \A i \in DOMAIN udp.dgrams :
            (j < i /\ ~WellFormed(udp.dgrams[j]) /\ WellFormed(udp.dgrams[i]))
              => \E r \in udp.parsed : r.id = i /\ r.data = udp.dgrams[i]


\* ---- batch numbers ------------------------------------------------------------------
\* the step is the successful end of a write: li.flushBatch returns nil after
\* the writer has put every group
WriteSucceeds ==
  \E p \in Procs : pc[p] = "writing" /\ pc'[p] # "writing" /\ last'.res = "ok"

\* C33: batchNumber never decreases: it grows by one at each successful write
\* of a non-empty batch and at no other step (empty flush, failed write); the
\* batch being accumulated always carries the current batchNumber, so the
\* written batches are numbered 0, 1, 2, ... without gaps or repeats.
C33_BatchNumberCounts ==
  [][/\ batchNumber' = (IF WriteSucceeds THEN batchNumber + 1 ELSE batchNumber)
     /\ WriteSucceeds
          => /\ Len(batch.Entries) > 0
             /\ batch.BatchNumber = batchNumber
             /\ PutsOf(batchNumber, failures) # {}
     /\ batch.BatchNumber = batchNumber
     /\ batch'.BatchNumber = batchNumber'
     /\ \A i \in DOMAIN sink' : sink'[i].bn <= batchNumber']_vars

\* a second batch has been written, after a write that failed
C33_Witness ==
  /\ batchNumber = 2
  /\ failures > 0
  /\ last.res = "ok" /\ last.len0 > 0


\* ---- failed writes --------------------------------------------------------------------
\* the step is the failing end of a write by p: the writer's error is returned
WriteFailsAt(p) == pc[p] = "writing" /\ pc'[p] # "writing" /\ last'.res = "err"

\* line numbers put during the write attempt that is in progress
AttemptLines ==
  UNION { { sink[i].lns[k] : k \in DOMAIN sink[i].lns } :
            i \in PutsOf(batch.BatchNumber, failures) }

\* C34: a failed sink write, in Flush() or in the size-triggered flush of
\* ProcessLine, leaves every record in the buffer, the one whose admission
\* triggered the flush included, and leaves batchNumber as it was; records
\* stay in the buffer until a write succeeds, and that write puts all of them.
C34_FailedWriteKeepsRecords ==
  [][/\ \A p \in Procs :
          WriteFailsAt(p)
            => /\ batch' = batch
               /\ batchNumber' = batchNumber
               /\ Len(batch.Entries) = wr[p].len0 + (IF p \in Producers THEN 1 ELSE 0)
               /\ p \in Producers => batch.Entries[Len(batch.Entries)].LineNumber = lineCount
     /\ ~WriteSucceeds
          => /\ Len(batch'.Entries) >= Len(batch.Entries)
             /\ SubSeq(batch'.Entries, 1, Len(batch.Entries)) = batch.Entries
     /\ WriteSucceeds => AttemptLines = BatchLines]_vars

\* a Flush() has written a full batch whose size-triggered write had failed
C34_Witness ==
  /\ last.op = "Flush" /\ last.res = "ok"
  /\ last.len0 = BatchSize
  /\ failures > 0


\* ---- statistics -----------------------------------------------------------------------
\* line numbers of the records in the batches written so far
WrittenLines == UNION { FlushLines(k) : k \in 0..(batchNumber - 1) }

\* C35: in every state, lineCount = duplicateCount + the records in the buffer
\* + the records of the batches written; GetStats' unique count (lineCount -
\* duplicateCount) is the number of records ever created, and every created
\* record is in the buffer or in a written batch, never in both.
C35_CountsAddUp ==
  /\ lineCount = duplicateCount + Len(batch.Entries) + Cardinality(WrittenLines)
  /\ lineCount - duplicateCount = Len(Admitted)
  /\ Cardinality(BatchLines) = Len(batch.Entries)
  /\ AdmittedLines = BatchLines \cup WrittenLines
  /\ BatchLines \cap WrittenLines = {}

\* a line was admitted, written after a failed attempt, and then sent again
\* and dropped as a duplicate
C35_Witness ==
  /\ lineCount = 2 /\ duplicateCount = 1
  /\ batchNumber = 1 /\ failures > 0
  /\ WrittenLines = {1}


\* ---- locks ----------------------------------------------------------------------------
\* the goroutines holding dc or pt
InnerHolders(l) == lk[l].r \cup (IF lk[l].w = "free" THEN {} ELSE {lk[l].w})

\* C36: with ProcessLine, Flush, GetStats, the worker and one Stop() running
\* concurrently, a goroutine holding the dedup lock or the partition lock asks
\* for no other lock before releasing it (the locks nest in one order, li.mu
\* outermost), and every call that has started returns.
C36_NoDeadlock ==
  /\ [](\A l \in {"dc", "pt"} : \A p \in InnerHolders(l) :
          NextOp(p) \in {<<"Unlock", l>>, <<"RUnlock", l>>})
  /\ \A p \in Procs \ {Worker} :
       (lk.at[p].call # "idle") ~> (lk.at[p].call = "idle")

\* Stop() waits for the worker while a receiver holds li.mu and the dedup lock
C36_Witness ==
  /\ lk.at[Stopper] = [call |-> "Stop", i |-> 2]
  /\ ~lk.autoFlushStopped
  /\ \E p \in Producers : lk.mu = p /\ lk.dc.w = p
  /\ lk.at[Worker] = [call |-> "autoFlushWorker", i |-> 4]


\* C38: Stop() may be called more than once with auto-flush on: every call
\* returns after its final flush and the process never crashes.
C38_StopTwiceIsSafe ==
  /\ ~lk.crashed
  /\ lk.stops = 2 => lk.at[Stopper].call \in {"Stop", "idle"}



\* ---- racing triggers ------------------------------------------------------------------
\* the worker's Flush() takes the mutex in this step
WorkerFlushRuns == pc[Worker] = "fl_lock" /\ pc'[Worker] # "fl_lock"

\* C37: no put to the sink carries zero records, and racing triggers never
\* write a batch twice: within one write attempt no record is put twice, and
\* when the worker has seen a non-empty batch, released the mutex, and another
\* trigger has flushed that batch before the worker's Flush() runs, the
\* worker's Flush() returns nil without a put and without touching batchNumber,
\* which has advanced once for that batch.
C37_NoEmptyNoDoubleWrite ==
  [][/\ \A i \in DOMAIN sink' : Len(sink'[i].lns) > 0
     /\ \A i, j \in DOMAIN sink' :
          (i # j /\ sink'[i].att = sink'[j].att)
            => { sink'[i].lns[k] : k \in DOMAIN sink'[i].lns }
                 \cap { sink'[j].lns[k] : k \in DOMAIN sink'[j].lns } = {}
     /\ (WorkerFlushRuns /\ Len(batch.Entries) = 0)
          => /\ pc'[Worker] = "w_select"
             /\ last' = Returned(Worker, "ok", 0, batchNumber)
             /\ sink' = sink
             /\ batch' = batch
             /\ batchNumber' = batchNumber
     /\ batchNumber' # batchNumber
          => /\ batchNumber' = batchNumber + 1
             /\ AttemptLines = BatchLines
             /\ BatchLines # {}]_vars

\* the worker's Flush() has just returned from an empty batch: the batch it
\* had seen was written, once, by another trigger in the meantime
C37_Witness ==
  /\ last = Returned(Worker, "ok", 0, 1)
  /\ batchNumber = 1
  /\ Len(sink) = 1 /\ Len(sink[1].lns) = 1



\* ---- the end of a GELF TCP connection ---------------------------------------------
\* positions of the zero bytes among the first k bytes of s
Nulls(s, k) == { z \in 1..k : s[z] = 0 }

\* C39: bytes after the last zero byte of a TCP connection are never
\* submitted: every submitted message is the span that ends at a zero byte
\* received, there are no more messages than zero bytes received, and the
\* step that ends the connection (EOF or read error) submits nothing and
\* discards the unterminated rest.
C39_TrailingBytesDiscarded ==
  [][/\ Len(tcp'.out) <= Cardinality(Nulls(tcp'.stream, tcp'.pos))
     /\ \A i \in DOMAIN tcp'.out :
          \E z \in Nulls(tcp'.stream, tcp'.pos) : tcp'.out[i] = SpanBefore(tcp'.stream, z)
     /\ (~tcp.closed /\ tcp'.closed)
          => /\ tcp'.out = tcp.out
             /\ tcp'.buffer = <<>>]_vars

\* the connection has ended after every byte was read; the stream carried a
\* terminated message and then bytes with no terminator
C39_Witness ==
  /\ tcp.closed
  /\ tcp.pos = Len(tcp.stream)
  /\ Len(tcp.out) = 1
  /\ tcp.stream # <<>> /\ tcp.stream[Len(tcp.stream)] # 0
  /\ Nulls(tcp.stream, tcp.pos) # {}



\* ---- GELF envelopes without a level -----------------------------------------------
\* C40: an envelope with no level key whose short_message yields no level is
\* handled exactly like the same envelope with level 0: the same serialized
\* record, admitted with level error.
C40_AbsentLevelIsError ==
  (/\ conv.fn = "UnmarshalJSON" /\ conv.done
   /\ conv.in.level = <<>>
   /\ parseLevelFromMessage(conv.in.short_message) = "")
    => /\ conv.out.gelf = UnmarshalJSON([conv.in EXCEPT !.level = <<0>>])
       /\ conv.out.logMap
            = GelfLogMap(UnmarshalJSON([conv.in EXCEPT !.level = <<0>>]), now)
       /\ \A r \in GelfRecords : r.Level = "error"

====
